---- MODULE Spec2Model ----
(***************************************************************************)
(* Model of tools/generate_textures.py: the Mega Knights texture           *)
(* generator.  A drawing function is the sequence of putpixel calls it     *)
(* makes, in program order; a pixel array is a record [w, h, pix, err]     *)
(* where pix maps <<x, y>> to an RGBA tuple and err is TRUE once a         *)
(* putpixel fell outside the array (the IndexError that aborts the         *)
(* script).  An image object of the running script is kept as what         *)
(* determines its pixels: the arguments of Image.new and the painting      *)
(* steps made on it since; Pixels(o) is the pixel array it holds.  main()  *)
(* is a state machine that steps through makedirs, the three generate_*    *)
(* loops (create, paint, save for every output) and the final message.     *)
(***************************************************************************)
EXTENDS Integers, Sequences, FiniteSets, TLC

VARIABLES
    pc,        \* position of the running script inside main()
    i,         \* index of the current entry of the table being iterated
    j,         \* index of the current piece (armor-piece icon loop only)
    root,      \* ROOT, the directory the script's paths are derived from
    run,       \* number of the current run of main()
    heap,      \* live image objects of the process: object id -> object
    img,       \* object bound to `img` (0: unbound)
    main_img,  \* object bound to `main_img` (0: unbound)
    legs_img,  \* object bound to `legs_img` (0: unbound)
    dirs,      \* directories that exist on disk
    disk,      \* files on disk: path -> saved image
    saves,     \* paths saved so far in this run, in order
    out,       \* lines printed so far in this run, in order
    prev,      \* the files the previous run produced, by output name
    t_img,     \* primitive harness: the pixel array the primitive is applied to
    t_call,    \* primitive harness: the last call made (<<>> before any)
    t_old      \* primitive harness: the buffer before the last call

vars == <<pc, i, j, root, run, heap, img, main_img, legs_img, dirs, disk,
          saves, out, prev, t_img, t_call, t_old>>

mainVars == <<pc, i, j, root, run, heap, img, main_img, legs_img, dirs, disk,
              saves, out, prev>>

primVars == <<t_img, t_call, t_old>>

\* ---------------------------------------------------------------- bounds
MaxRuns == 2        \* runs of main() that are compared with each other
MaxCoord == 2       \* primitive harness: largest origin coordinate tried
MaxExtent == 4      \* primitive harness: largest width / height tried
TestSize == 6       \* primitive harness: side of the test buffer
MaxOrigin == 1      \* part harness: largest box origin coordinate tried
MaxBox == 3         \* part harness: largest box width / height / depth tried

\* ------------------------------------------------------------- UV layout
None == <<>>

Or(a, b) == IF a = None THEN b ELSE a

\* fault injected for C13: the back face placed one depth short, on top of
\* the left face
_faces_back_on_left(origin, whd) ==
    LET U == origin[1]
        V == origin[2]
        W == whd[1]
        H == whd[2]
        D == whd[3]
    IN  [top    |-> <<U+D, V, W, D>>,     bottom |-> <<U+D+W, V, W, D>>,
         right  |-> <<U, V+D, D, H>>,     front  |-> <<U+D, V+D, W, H>>,
         left   |-> <<U+D+W, V+D, D, H>>, back   |-> <<U+D+W, V+D, W, H>>]

_faces(origin, whd) ==
    LET U == origin[1]
        V == origin[2]
        W == whd[1]
        H == whd[2]
        D == whd[3]
    IN  [top    |-> <<U+D, V, W, D>>,     bottom |-> <<U+D+W, V, W, D>>,
         right  |-> <<U, V+D, D, H>>,     front  |-> <<U+D, V+D, W, H>>,
         left   |-> <<U+D+W, V+D, D, H>>, back   |-> <<U+D+W+D, V+D, W, H>>]

\* dict(...) keeps insertion order: the order .items() iterates the faces
FaceNames == <<"top", "bottom", "right", "front", "left", "back">>

SKIN ==
    [head  |-> _faces(<<0,0>>,   <<8,8,8>>),  body  |-> _faces(<<16,16>>, <<8,12,4>>),
     r_arm |-> _faces(<<40,16>>, <<4,12,4>>), r_leg |-> _faces(<<0,16>>,  <<4,12,4>>),
     l_arm |-> _faces(<<32,48>>, <<4,12,4>>), l_leg |-> _faces(<<16,48>>, <<4,12,4>>)]

\* Image.new('RGBA', (w, h), c) as the pixel array it allocates
Canvas(w, h, c) ==
    [w |-> w, h |-> h, pix |-> [p \in (0..w-1) \X (0..h-1) |-> c], err |-> FALSE]

\* Image.new('RGBA', (w, h), c) as an object of the script: nothing drawn yet
Image_new(w, h, c) ==
    [size |-> <<w, h>>, color |-> c, drawn |-> <<>>, err |-> FALSE]

\* A drawing function is modelled by the putpixel calls it makes, in program
\* order.  One entry stands for the calls of one loop nest: img.putpixel(p,
\* c[p]) for every coordinate p of S (the calls of one loop nest never hit the
\* same coordinate twice, so their order within the nest is immaterial).
putpixels(S, c) == << [S |-> S, c |-> [p \in S |-> c]] >>

fill(x, y, w, h, c) ==
    putpixels((x .. x+w-1) \X (y .. y+h-1), c)

\* fault injected for C10: the two edge columns drawn over range(h) instead
\* of range(1, h-1), so they run over the corner pixels
shade_full_columns(x, y, w, h, base, hi, lo) ==
    fill(x, y, w, h, base)
    \o putpixels((x .. x+w-1) \X {y}, hi)
    \o putpixels({x} \X (y .. y+h-1), hi)
    \o putpixels((x .. x+w-1) \X {y+h-1}, lo)
    \o putpixels({x+w-1} \X (y .. y+h-1), lo)

shade(x, y, w, h, base, hi, lo) ==
    fill(x, y, w, h, base)
    \o putpixels((x .. x+w-1) \X {y}, hi)
    \o putpixels({x} \X (y+1 .. y+h-2), hi)
    \o putpixels((x .. x+w-1) \X {y+h-1}, lo)
    \o putpixels({x+w-1} \X (y+1 .. y+h-2), lo)

\* fault injected for C11: range(n + 1) instead of range(n)
hl_one_more(x, y, n, c) == putpixels((x .. x+n) \X {y}, c)

hl(x, y, n, c) == putpixels((x .. x+n-1) \X {y}, c)

vl(x, y, n, c) == putpixels({x} \X (y .. y+n-1), c)

px(x, y, c) == putpixels({<<x, y>>}, c)

\* The chainmail loop nests of paint_armor_tier: base where (x + y) is even,
\* lo where it is odd.
dither(x, y, w, h, base, lo) ==
    LET R == (x .. x+w-1) \X (y .. y+h-1)
    IN  << [S |-> R,
            c |-> [p \in R |-> IF (p[1] + p[2]) % 2 = 0 THEN base ELSE lo]] >>

\* The image after the putpixel calls ws were made on im, in order: a pixel
\* holds what the last call that hit it wrote.  A call outside the image
\* raises IndexError and the script stops there; err records it (the aborted
\* buffer is never saved, its pixels are left as they were).
Paint(im, ws) ==
    IF im.err \/ \E k \in 1..Len(ws) : ~(ws[k].S \subseteq DOMAIN im.pix)
    THEN [im EXCEPT !.err = TRUE]
    ELSE [im EXCEPT !.pix =
            [p \in DOMAIN im.pix |->
                LET K == {k \in 1..Len(ws) : p \in ws[k].S}
                IN  IF K = {} THEN im.pix[p]
                    ELSE ws[CHOOSE k \in K : \A m \in K : m <= k].c[p]]]


\* ------------------------------------------------ colour palettes (RGBA)
T == <<0, 0, 0, 0>>

COLOR_PALETTES ==
    [ AK_STEEL_HI |-> <<208, 208, 216, 255>>,
      AK_STEEL |-> <<138, 142, 150, 255>>,
      AK_STEEL_LO |-> <<74, 78, 90, 255>>,
      AK_BLUE_HI |-> <<91, 141, 217, 255>>,
      AK_BLUE |-> <<46, 91, 168, 255>>,
      AK_BLUE_LO |-> <<26, 58, 110, 255>>,
      AK_GOLD |-> <<212, 168, 50, 255>>,
      AK_GOLD_LO |-> <<139, 105, 20, 255>>,
      AK_DARK |-> <<30, 30, 40, 255>>,
      AK_EYE |-> <<180, 210, 255, 255>>,
      AK_BROWN |-> <<101, 80, 52, 255>>,
      AK_BROWN_LO |-> <<70, 55, 36, 255>>,
      EK_STEEL_HI |-> <<144, 144, 152, 255>>,
      EK_STEEL |-> <<88, 88, 96, 255>>,
      EK_STEEL_LO |-> <<42, 42, 50, 255>>,
      EK_RED_HI |-> <<224, 80, 80, 255>>,
      EK_RED |-> <<160, 24, 24, 255>>,
      EK_RED_LO |-> <<96, 16, 16, 255>>,
      EK_DARK |-> <<25, 20, 20, 255>>,
      EK_EYE |-> <<255, 60, 60, 255>>,
      AA_GREEN_HI |-> <<106, 174, 74, 255>>,
      AA_GREEN |-> <<60, 122, 40, 255>>,
      AA_GREEN_LO |-> <<30, 78, 20, 255>>,
      AA_LEATH_HI |-> <<196, 154, 108, 255>>,
      AA_LEATH |-> <<139, 105, 65, 255>>,
      AA_LEATH_LO |-> <<90, 62, 34, 255>>,
      AA_SKIN |-> <<212, 165, 116, 255>>,
      AA_SKIN_LO |-> <<180, 130, 90, 255>>,
      AA_HAIR |-> <<100, 70, 40, 255>>,
      AA_EYE |-> <<60, 40, 20, 255>>,
      AA_TAN_HI |-> <<232, 216, 176, 255>>,
      AA_TAN |-> <<196, 170, 120, 255>>,
      AA_TAN_LO |-> <<138, 122, 80, 255>>,
      AA_QUIVER |-> <<90, 58, 30, 255>>,
      AA_ARROW |-> <<196, 160, 96, 255>>,
      AA_FLETCH |-> <<200, 50, 50, 255>>,
      EA_GREEN_HI |-> <<58, 64, 48, 255>>,
      EA_GREEN |-> <<42, 45, 42, 255>>,
      EA_GREEN_LO |-> <<21, 24, 21, 255>>,
      EA_MAROON_HI |-> <<90, 48, 48, 255>>,
      EA_MAROON |-> <<74, 26, 26, 255>>,
      EA_MAROON_LO |-> <<45, 15, 15, 255>>,
      EA_LEATH_HI |-> <<90, 68, 48, 255>>,
      EA_LEATH |-> <<58, 40, 24, 255>>,
      EA_LEATH_LO |-> <<42, 28, 16, 255>>,
      EA_EYE |-> <<200, 50, 30, 255>>,
      EA_SKIN_LO |-> <<50, 35, 25, 255>>,
      AW_PURP_HI |-> <<139, 95, 199, 255>>,
      AW_PURP |-> <<106, 49, 144, 255>>,
      AW_PURP_LO |-> <<68, 10, 95, 255>>,
      AW_GOLD |-> <<251, 194, 0, 255>>,
      AW_GOLD_LO |-> <<180, 140, 0, 255>>,
      AW_SKIN |-> <<212, 165, 116, 255>>,
      AW_SKIN_LO |-> <<180, 130, 90, 255>>,
      AW_BEARD_HI |-> <<240, 240, 245, 255>>,
      AW_BEARD |-> <<210, 210, 215, 255>>,
      AW_BEARD_LO |-> <<175, 175, 185, 255>>,
      AW_CYAN |-> <<127, 212, 255, 255>>,
      AW_CYAN_LO |-> <<80, 160, 210, 255>>,
      EW_DARK_HI |-> <<46, 24, 52, 255>>,
      EW_DARK |-> <<27, 0, 54, 255>>,
      EW_DARK_LO |-> <<15, 0, 32, 255>>,
      EW_RED |-> <<220, 20, 60, 255>>,
      EW_FIRE_HI |-> <<255, 100, 30, 255>>,
      EW_FIRE |-> <<255, 69, 0, 255>>,
      EW_FIRE_LO |-> <<180, 40, 0, 255>>,
      EW_SHADOW |-> <<20, 15, 20, 255>>,
      EW_EYE |-> <<255, 0, 0, 255>>,
      AD_NAVY_HI |-> <<30, 40, 70, 255>>,
      AD_NAVY |-> <<26, 26, 46, 255>>,
      AD_NAVY_LO |-> <<15, 15, 26, 255>>,
      AD_BLUE |-> <<0, 102, 255, 255>>,
      AD_BLUE_HI |-> <<102, 178, 255, 255>>,
      AD_BLUE_LO |-> <<0, 60, 160, 255>>,
      AD_SILVER |-> <<136, 153, 170, 255>>,
      ED_BLACK_HI |-> <<28, 28, 28, 255>>,
      ED_BLACK |-> <<13, 13, 13, 255>>,
      ED_BLACK_LO |-> <<0, 0, 0, 255>>,
      ED_CRIM |-> <<139, 0, 0, 255>>,
      ED_CRIM_HI |-> <<204, 0, 0, 255>>,
      ED_RUST |-> <<74, 32, 32, 255>>,
      SL_BLACK_HI |-> <<28, 28, 28, 255>>,
      SL_BLACK |-> <<13, 13, 13, 255>>,
      SL_BLACK_LO |-> <<0, 0, 0, 255>>,
      SL_CRIM |-> <<180, 0, 0, 255>>,
      SL_CRIM_HI |-> <<220, 30, 30, 255>>,
      SL_GOLD_HI |-> <<255, 215, 0, 255>>,
      SL_GOLD |-> <<218, 165, 32, 255>>,
      SL_GOLD_LO |-> <<139, 105, 20, 255>>,
      PAGE_HI |-> <<232, 212, 168, 255>>,
      PAGE |-> <<210, 180, 140, 255>>,
      PAGE_LO |-> <<139, 105, 65, 255>>,
      PAGE_STITCH |-> <<120, 85, 50, 255>>,
      SQUIRE_HI |-> <<200, 200, 200, 255>>,
      SQUIRE |-> <<168, 168, 168, 255>>,
      SQUIRE_LO |-> <<80, 80, 80, 255>>,
      SQUIRE_ALT |-> <<130, 130, 140, 255>>,
      KNIGHT_HI |-> <<160, 192, 216, 255>>,
      KNIGHT |-> <<70, 130, 180, 255>>,
      KNIGHT_LO |-> <<30, 61, 107, 255>>,
      KNIGHT_SPEC |-> <<255, 255, 255, 255>>,
      CHAMP_HI |-> <<255, 215, 0, 255>>,
      CHAMP |-> <<218, 165, 32, 255>>,
      CHAMP_LO |-> <<139, 105, 20, 255>>,
      CHAMP_SPEC |-> <<255, 248, 220, 255>>,
      CHAMP_GEM |-> <<220, 20, 60, 255>>,
      MEGA_HI |-> <<155, 89, 182, 255>>,
      MEGA |-> <<75, 0, 130, 255>>,
      MEGA_LO |-> <<26, 26, 46, 255>>,
      MEGA_GOLD |-> <<255, 215, 0, 255>>,
      MEGA_GOLD_LO |-> <<180, 140, 0, 255>>,
      MEGA_GLOW |-> <<200, 160, 255, 255>> ]

\* ------------------------------------------------- entity skins (64x64)
new_skin == Image_new(64, 64, T)

\* fault injected for C2: width and height of the armor buffer swapped
new_armor_tex_swapped == Image_new(32, 64, T)

new_armor_tex == Image_new(64, 32, T)

new_icon == Image_new(16, 16, T)

HELMET_SHAPE ==
  <<
    <<".",".",".",".",".",".",".",".",".",".",".",".",".",".",".",".">>,
    <<".",".",".",".",".",".",".",".",".",".",".",".",".",".",".",".">>,
    <<".",".",".",".",".","#","#","#","#","#","#",".",".",".",".",".">>,
    <<".",".",".",".","#","#","#","#","#","#","#","#",".",".",".",".">>,
    <<".",".",".","#","#","#","#","#","#","#","#","#","#",".",".",".">>,
    <<".",".",".","#","#","#","#","#","#","#","#","#","#",".",".",".">>,
    <<".",".",".","#","#","#","#","#","#","#","#","#","#",".",".",".">>,
    <<".",".",".","#","#","#","#","#","#","#","#","#","#",".",".",".">>,
    <<".",".",".","#","#","#","#","#","#","#","#","#","#",".",".",".">>,
    <<".",".",".","#","#","#","#","#","#","#","#","#","#",".",".",".">>,
    <<".",".",".","#","#","#",".",".",".",".","#","#","#",".",".",".">>,
    <<".",".",".","#","#",".",".",".",".",".",".","#","#",".",".",".">>,
    <<".",".",".",".","#",".",".",".",".",".",".","#",".",".",".",".">>,
    <<".",".",".",".",".",".",".",".",".",".",".",".",".",".",".",".">>,
    <<".",".",".",".",".",".",".",".",".",".",".",".",".",".",".",".">>,
    <<".",".",".",".",".",".",".",".",".",".",".",".",".",".",".",".">>
  >>

CHEST_SHAPE ==
  <<
    <<".",".",".",".",".",".",".",".",".",".",".",".",".",".",".",".">>,
    <<".",".",".",".",".",".",".",".",".",".",".",".",".",".",".",".">>,
    <<".",".",".","#","#",".",".",".",".",".",".","#","#",".",".",".">>,
    <<".",".",".","#","#","#","#","#","#","#","#","#","#","#","#",".">>,
    <<".",".",".",".","#","#","#","#","#","#","#","#","#","#",".",".">>,
    <<".",".",".",".","#","#","#","#","#","#","#","#","#","#",".",".">>,
    <<".",".",".",".","#","#","#","#","#","#","#","#","#","#",".",".">>,
    <<".",".",".",".","#","#","#","#","#","#","#","#","#","#",".",".">>,
    <<".",".",".",".","#","#","#","#","#","#","#","#","#","#",".",".">>,
    <<".",".",".",".","#","#","#","#","#","#","#","#","#","#",".",".">>,
    <<".",".",".",".","#","#","#","#","#","#","#","#","#","#",".",".">>,
    <<".",".",".",".",".","#","#","#","#","#","#","#","#",".",".",".">>,
    <<".",".",".",".",".","#","#","#",".",".","#","#","#",".",".",".">>,
    <<".",".",".",".",".",".",".",".",".",".",".",".",".",".",".",".">>,
    <<".",".",".",".",".",".",".",".",".",".",".",".",".",".",".",".">>,
    <<".",".",".",".",".",".",".",".",".",".",".",".",".",".",".",".">>
  >>

LEGS_SHAPE ==
  <<
    <<".",".",".",".",".",".",".",".",".",".",".",".",".",".",".",".">>,
    <<".",".",".",".",".",".",".",".",".",".",".",".",".",".",".",".">>,
    <<".",".",".",".","#","#","#","#","#","#","#","#","#","#",".",".">>,
    <<".",".",".",".","#","#","#","#","#","#","#","#","#","#",".",".">>,
    <<".",".",".",".","#","#","#","#","#","#","#","#","#","#",".",".">>,
    <<".",".",".",".","#","#","#","#",".",".","#","#","#","#",".",".">>,
    <<".",".",".",".","#","#","#","#",".",".","#","#","#","#",".",".">>,
    <<".",".",".",".","#","#","#","#",".",".","#","#","#","#",".",".">>,
    <<".",".",".",".","#","#","#","#",".",".","#","#","#","#",".",".">>,
    <<".",".",".",".","#","#","#","#",".",".","#","#","#","#",".",".">>,
    <<".",".",".",".","#","#","#","#",".",".","#","#","#","#",".",".">>,
    <<".",".",".",".","#","#","#","#",".",".","#","#","#","#",".",".">>,
    <<".",".",".",".","#","#","#","#",".",".","#","#","#","#",".",".">>,
    <<".",".",".",".",".",".",".",".",".",".",".",".",".",".",".",".">>,
    <<".",".",".",".",".",".",".",".",".",".",".",".",".",".",".",".">>,
    <<".",".",".",".",".",".",".",".",".",".",".",".",".",".",".",".">>
  >>

BOOTS_SHAPE ==
  <<
    <<".",".",".",".",".",".",".",".",".",".",".",".",".",".",".",".">>,
    <<".",".",".",".",".",".",".",".",".",".",".",".",".",".",".",".">>,
    <<".",".",".",".",".",".",".",".",".",".",".",".",".",".",".",".">>,
    <<".",".",".",".",".",".",".",".",".",".",".",".",".",".",".",".">>,
    <<".",".",".",".",".",".",".",".",".",".",".",".",".",".",".",".">>,
    <<".",".",".",".","#","#","#",".",".","#","#","#",".",".",".",".">>,
    <<".",".",".",".","#","#","#",".",".","#","#","#",".",".",".",".">>,
    <<".",".",".",".","#","#","#",".",".","#","#","#",".",".",".",".">>,
    <<".",".",".",".","#","#","#",".",".","#","#","#",".",".",".",".">>,
    <<".",".",".",".","#","#","#",".",".","#","#","#",".",".",".",".">>,
    <<".",".",".","#","#","#","#",".",".","#","#","#","#",".",".",".">>,
    <<".",".",".","#","#","#","#",".",".","#","#","#","#",".",".",".">>,
    <<".",".","#","#","#","#","#",".",".","#","#","#","#","#",".",".">>,
    <<".",".",".",".",".",".",".",".",".",".",".",".",".",".",".",".">>,
    <<".",".",".",".",".",".",".",".",".",".",".",".",".",".",".",".">>,
    <<".",".",".",".",".",".",".",".",".",".",".",".",".",".",".",".">>
  >>

TOKEN_SHAPE ==
  <<
    <<".",".",".",".",".",".",".",".",".",".",".",".",".",".",".",".">>,
    <<".",".",".",".",".",".",".",".",".",".",".",".",".",".",".",".">>,
    <<".",".",".",".",".","#","#","#","#","#","#",".",".",".",".",".">>,
    <<".",".",".",".","#","#","#","#","#","#","#","#",".",".",".",".">>,
    <<".",".",".","#","#","#","#","#","#","#","#","#","#",".",".",".">>,
    <<".",".",".","#","#",".",".",".",".",".",".","#","#",".",".",".">>,
    <<".",".",".","#","#",".",".",".",".",".",".","#","#",".",".",".">>,
    <<".",".",".","#","#",".",".",".",".",".",".","#","#",".",".",".">>,
    <<".",".",".","#","#",".",".",".",".",".",".","#","#",".",".",".">>,
    <<".",".",".","#","#",".",".",".",".",".",".","#","#",".",".",".">>,
    <<".",".",".","#","#","#","#","#","#","#","#","#","#",".",".",".">>,
    <<".",".",".",".","#","#","#","#","#","#","#","#",".",".",".",".">>,
    <<".",".",".",".",".","#","#","#","#","#","#",".",".",".",".",".">>,
    <<".",".",".",".",".",".",".",".",".",".",".",".",".",".",".",".">>,
    <<".",".",".",".",".",".",".",".",".",".",".",".",".",".",".",".">>,
    <<".",".",".",".",".",".",".",".",".",".",".",".",".",".",".",".">>
  >>

BLUEPRINT_SHAPE ==
  <<
    <<".",".",".",".",".",".",".",".",".",".",".",".",".",".",".",".">>,
    <<".",".",".","#","#","#","#","#","#","#","#","#","#",".",".",".">>,
    <<".",".","#","#","#","#","#","#","#","#","#","#","#","#",".",".">>,
    <<".",".","#","#",".",".",".",".",".",".",".",".","#","#",".",".">>,
    <<".",".","#","#",".",".",".",".",".",".",".",".","#","#",".",".">>,
    <<".",".","#","#",".",".",".",".",".",".",".",".","#","#",".",".">>,
    <<".",".","#","#",".",".",".",".",".",".",".",".","#","#",".",".">>,
    <<".",".","#","#",".",".",".",".",".",".",".",".","#","#",".",".">>,
    <<".",".","#","#",".",".",".",".",".",".",".",".","#","#",".",".">>,
    <<".",".","#","#",".",".",".",".",".",".",".",".","#","#",".",".">>,
    <<".",".","#","#",".",".",".",".",".",".",".",".","#","#",".",".">>,
    <<".",".","#","#",".",".",".",".",".",".",".",".","#","#",".",".">>,
    <<".",".","#","#","#","#","#","#","#","#","#","#","#","#",".",".">>,
    <<".",".",".","#","#","#","#","#","#","#","#","#","#",".",".",".">>,
    <<".",".",".",".",".",".",".",".",".",".",".",".",".",".",".",".">>,
    <<".",".",".",".",".",".",".",".",".",".",".",".",".",".",".",".">>
  >>

TOKEN_CROSS ==
  <<
    <<7,5>>, <<8,5>>, <<7,6>>, <<8,6>>, <<6,7>>, <<9,7>>, <<7,7>>, <<8,7>>,
    <<6,8>>, <<9,8>>, <<7,8>>, <<8,8>>, <<7,9>>, <<8,9>>, <<7,10>>, <<8,10>>
  >>

TOKEN_STAR ==
  <<
    <<7,5>>, <<8,5>>, <<6,6>>, <<9,6>>, <<7,6>>, <<8,6>>, <<5,7>>, <<6,7>>,
    <<7,7>>, <<8,7>>, <<9,7>>, <<10,7>>, <<5,8>>, <<6,8>>, <<7,8>>, <<8,8>>,
    <<9,8>>, <<10,8>>, <<6,9>>, <<9,9>>, <<7,9>>, <<8,9>>, <<7,10>>, <<8,10>>
  >>

TOKEN_CROWN ==
  <<
    <<5,6>>, <<6,5>>, <<7,6>>, <<8,6>>, <<9,5>>, <<10,6>>, <<5,7>>, <<6,7>>,
    <<7,7>>, <<8,7>>, <<9,7>>, <<10,7>>, <<5,8>>, <<6,8>>, <<7,8>>, <<8,8>>,
    <<9,8>>, <<10,8>>, <<5,9>>, <<6,9>>, <<7,9>>, <<8,9>>, <<9,9>>, <<10,9>>
  >>

BP_TOWER ==
  <<
    <<7,4>>, <<8,4>>, <<7,5>>, <<8,5>>, <<6,6>>, <<7,6>>, <<8,6>>, <<9,6>>,
    <<6,7>>, <<7,7>>, <<8,7>>, <<9,7>>, <<7,8>>, <<8,8>>, <<7,9>>, <<8,9>>,
    <<7,10>>, <<8,10>>, <<7,11>>, <<8,11>>
  >>

BP_GATE ==
  <<
    <<5,4>>, <<6,4>>, <<9,4>>, <<10,4>>, <<5,5>>, <<6,5>>, <<9,5>>, <<10,5>>,
    <<5,6>>, <<6,6>>, <<7,6>>, <<8,6>>, <<9,6>>, <<10,6>>, <<5,7>>, <<6,7>>,
    <<7,7>>, <<8,7>>, <<9,7>>, <<10,7>>, <<5,8>>, <<6,8>>, <<9,8>>, <<10,8>>,
    <<5,9>>, <<6,9>>, <<9,9>>, <<10,9>>, <<5,10>>, <<6,10>>, <<7,10>>, <<8,10>>,
    <<9,10>>, <<10,10>>
  >>

BP_HALL ==
  <<
    <<4,5>>, <<5,5>>, <<6,5>>, <<7,5>>, <<8,5>>, <<9,5>>, <<10,5>>, <<11,5>>,
    <<4,6>>, <<5,6>>, <<6,6>>, <<7,6>>, <<8,6>>, <<9,6>>, <<10,6>>, <<11,6>>,
    <<5,7>>, <<6,7>>, <<7,7>>, <<8,7>>, <<9,7>>, <<10,7>>, <<5,8>>, <<6,8>>,
    <<7,8>>, <<8,8>>, <<9,8>>, <<10,8>>, <<5,9>>, <<6,9>>, <<7,9>>, <<8,9>>,
    <<9,9>>, <<10,9>>, <<5,10>>, <<6,10>>, <<7,10>>, <<8,10>>, <<9,10>>, <<10,10>>
  >>

\* Paint a 16x16 icon from a shape template: every '#' cell gets hi, lo or
\* base according to which of its four neighbours are '#'.
paint_icon_from_shape(shape, base, hi, lo, outline0) ==
    LET outline == Or(outline0, lo)
        Cell(x, y) == shape[y + 1][x + 1]
        above(x, y) == y > 0  /\ Cell(x, y - 1) = "#"
        below(x, y) == y < 15 /\ Cell(x, y + 1) = "#"
        left(x, y)  == x > 0  /\ Cell(x - 1, y) = "#"
        right(x, y) == x < 15 /\ Cell(x + 1, y) = "#"
        colour(x, y) ==
            IF ~above(x, y) \/ ~below(x, y) \/ ~left(x, y) \/ ~right(x, y)
            THEN IF ~above(x, y) \/ ~left(x, y) THEN hi
                 ELSE IF ~below(x, y) \/ ~right(x, y) THEN lo
                 ELSE base
            ELSE base
        S == {p \in (0 .. Len(shape[1]) - 1) \X (0 .. Len(shape) - 1) :
                Cell(p[1], p[2]) = "#"}
    IN  << [S |-> S, c |-> [p \in S |-> colour(p[1], p[2])]] >>

\* Helpers to write a function body as the sequence of calls it makes.
RECURSIVE Flatten(_)
Flatten(seqs) ==
    IF Len(seqs) = 0 THEN <<>> ELSE Head(seqs) \o Flatten(Tail(seqs))

\* the calls of a straight-line block, one after the other
Do(calls) == Flatten(calls)

\* if cond: the calls of the block
When(cond, calls) == IF cond THEN Flatten(calls) ELSE <<>>

\* an optional colour argument that was passed (not None)
Given(v) == v # None

\* uv.items(): the faces of a dict in insertion order, each as
\* <<name, fx, fy, fw, fh>>
items(uv) == [n \in 1 .. 6 |-> <<FaceNames[n]>> \o uv[FaceNames[n]]]

\* fault injected for C12: the 'back' branch missing, so the back face is
\* shaded like the front
paint_part_no_back(faces, base, hi, lo, top_c0, bot_c0) ==
    LET top_c == Or(top_c0, hi)
        bot_c == Or(bot_c0, lo)
        Face(name, fx, fy, fw, fh) ==
            IF name = "top"
            THEN shade(fx, fy, fw, fh, top_c, hi, base)
            ELSE IF name = "bottom"
            THEN shade(fx, fy, fw, fh, bot_c, lo, lo)
            ELSE shade(fx, fy, fw, fh, base, hi, lo)
    IN  Flatten([n \in 1 .. 6 |-> LET e == items(faces)[n] IN Face(e[1], e[2], e[3], e[4], e[5])])

paint_part(faces, base, hi, lo, top_c0, bot_c0) ==
    LET top_c == Or(top_c0, hi)
        bot_c == Or(bot_c0, lo)
        Face(name, fx, fy, fw, fh) ==
            IF name = "top"
            THEN shade(fx, fy, fw, fh, top_c, hi, base)
            ELSE IF name = "bottom"
            THEN shade(fx, fy, fw, fh, bot_c, lo, lo)
            ELSE IF name = "back"
            THEN shade(fx, fy, fw, fh, lo, base, lo)
            ELSE shade(fx, fy, fw, fh, base, hi, lo)
    IN  Flatten([n \in 1 .. 6 |-> LET e == items(faces)[n] IN Face(e[1], e[2], e[3], e[4], e[5])])

\* ------------------------------------------------------ entity skins
\* One operator per painter: the calls it makes on its image, in source
\* order.  P is the palette the painter reads its colours from (the
\* module-level colour names, COLOR_PALETTES).
paint_ally_knight(P) ==
  paint_part(SKIN.head, P.AK_STEEL, P.AK_STEEL_HI, P.AK_STEEL_LO, None, None) \o
  paint_part(SKIN.body, P.AK_STEEL, P.AK_STEEL_HI, P.AK_STEEL_LO, None, None) \o
  paint_part(SKIN.r_arm, P.AK_STEEL, P.AK_STEEL_HI, P.AK_STEEL_LO, None, None) \o
  paint_part(SKIN.r_leg, P.AK_STEEL, P.AK_STEEL_HI, P.AK_STEEL_LO, None, None) \o
  paint_part(SKIN.l_arm, P.AK_STEEL, P.AK_STEEL_HI, P.AK_STEEL_LO, None, None) \o
  paint_part(SKIN.l_leg, P.AK_STEEL, P.AK_STEEL_HI, P.AK_STEEL_LO, None, None) \o
  Do(<<
    fill(8, 8, 8, 8, P.AK_STEEL),  \* line 242
    hl(8, 8, 8, P.AK_STEEL_HI),  \* line 243
    hl(8, 9, 8, P.AK_STEEL_HI),  \* line 244
    hl(9, 11, 6, P.AK_DARK),  \* line 246
    hl(9, 12, 6, P.AK_DARK),  \* line 247
    px(10, 11, P.AK_EYE),  \* line 248
    px(13, 11, P.AK_EYE),  \* line 249
    hl(8, 15, 8, P.AK_STEEL_LO),  \* line 251
    vl(15, 8, 8, P.AK_STEEL_LO),  \* line 252
    fill(8, 0, 8, 8, P.AK_STEEL),  \* line 256
    px(11, 0, P.AK_BLUE),  \* line 257
    px(11, 1, P.AK_BLUE),  \* line 257
    px(11, 2, P.AK_BLUE),  \* line 257
    px(11, 3, P.AK_BLUE),  \* line 257
    px(11, 4, P.AK_BLUE),  \* line 257
    px(11, 5, P.AK_BLUE),  \* line 257
    px(11, 6, P.AK_BLUE),  \* line 257
    px(11, 7, P.AK_BLUE),  \* line 257
    px(12, 0, P.AK_BLUE),  \* line 258
    px(12, 1, P.AK_BLUE),  \* line 258
    px(12, 2, P.AK_BLUE),  \* line 258
    px(12, 3, P.AK_BLUE),  \* line 258
    px(12, 4, P.AK_BLUE),  \* line 258
    px(12, 5, P.AK_BLUE),  \* line 258
    px(12, 6, P.AK_BLUE),  \* line 258
    px(12, 7, P.AK_BLUE),  \* line 258
    fill(20, 20, 8, 12, P.AK_BLUE),  \* line 262
    hl(20, 20, 8, P.AK_BLUE_HI),  \* line 263
    vl(20, 20, 12, P.AK_BLUE_HI),  \* line 264
    fill(20, 20, 8, 2, P.AK_STEEL),  \* line 266
    hl(20, 20, 8, P.AK_STEEL_HI),  \* line 267
    vl(23, 24, 5, P.AK_GOLD),  \* line 269
    hl(21, 26, 6, P.AK_GOLD),  \* line 270
    hl(20, 29, 8, P.AK_BROWN),  \* line 272
    px(23, 29, P.AK_GOLD),  \* line 273
    px(24, 29, P.AK_GOLD),  \* line 274
    hl(20, 31, 8, P.AK_BLUE_LO),  \* line 276
    vl(27, 20, 12, P.AK_BLUE_LO),  \* line 277
    fill(32, 20, 8, 12, P.AK_BLUE),  \* line 281
    hl(32, 20, 8, P.AK_BLUE_HI),  \* line 282
    vl(34, 21, 10, P.AK_BLUE_LO),  \* line 283
    vl(37, 21, 10, P.AK_BLUE_LO),  \* line 284
    hl(32, 31, 8, P.AK_BLUE_LO),  \* line 285
    px(22, 23, P.AK_STEEL_HI),  \* line 288
    shade(44, 20, 4, 12, P.AK_STEEL, P.AK_STEEL_HI, P.AK_STEEL_LO),  \* line 294
    vl(45, 22, 8, P.AK_BLUE),  \* line 296
    fill(44, 29, 4, 3, P.AK_STEEL_LO),  \* line 298
    hl(44, 29, 4, P.AK_STEEL),  \* line 299
    shade(36, 52, 4, 12, P.AK_STEEL, P.AK_STEEL_HI, P.AK_STEEL_LO),  \* line 294
    vl(37, 54, 8, P.AK_BLUE),  \* line 296
    fill(36, 61, 4, 3, P.AK_STEEL_LO),  \* line 298
    hl(36, 61, 4, P.AK_STEEL),  \* line 299
    shade(4, 20, 4, 12, P.AK_BLUE, P.AK_BLUE_HI, P.AK_BLUE_LO),  \* line 305
    fill(4, 28, 4, 4, P.AK_BROWN),  \* line 307
    hl(4, 28, 4, P.AK_BROWN),  \* line 308
    hl(4, 31, 4, P.AK_BROWN_LO),  \* line 309
    shade(20, 52, 4, 12, P.AK_BLUE, P.AK_BLUE_HI, P.AK_BLUE_LO),  \* line 305
    fill(20, 60, 4, 4, P.AK_BROWN),  \* line 307
    hl(20, 60, 4, P.AK_BROWN),  \* line 308
    hl(20, 63, 4, P.AK_BROWN_LO)   \* line 309
  >>)

paint_enemy_knight(P) ==
  paint_part(SKIN.head, P.EK_STEEL, P.EK_STEEL_HI, P.EK_STEEL_LO, None, None) \o
  paint_part(SKIN.body, P.EK_STEEL, P.EK_STEEL_HI, P.EK_STEEL_LO, None, None) \o
  paint_part(SKIN.r_arm, P.EK_STEEL, P.EK_STEEL_HI, P.EK_STEEL_LO, None, None) \o
  paint_part(SKIN.r_leg, P.EK_STEEL, P.EK_STEEL_HI, P.EK_STEEL_LO, None, None) \o
  paint_part(SKIN.l_arm, P.EK_STEEL, P.EK_STEEL_HI, P.EK_STEEL_LO, None, None) \o
  paint_part(SKIN.l_leg, P.EK_STEEL, P.EK_STEEL_HI, P.EK_STEEL_LO, None, None) \o
  Do(<<
    fill(8, 8, 8, 8, P.EK_STEEL),  \* line 320
    hl(8, 8, 8, P.EK_STEEL_HI),  \* line 321
    hl(9, 11, 6, P.EK_DARK),  \* line 323
    px(10, 11, P.EK_EYE),  \* line 324
    px(13, 11, P.EK_EYE),  \* line 325
    px(14, 9, P.EK_STEEL_LO),  \* line 327
    px(13, 10, P.EK_STEEL_LO),  \* line 328
    hl(8, 15, 8, P.EK_STEEL_LO),  \* line 329
    vl(15, 8, 8, P.EK_STEEL_LO),  \* line 330
    fill(8, 0, 8, 8, P.EK_STEEL),  \* line 333
    px(10, 0, P.EK_STEEL_HI),  \* line 334
    px(13, 0, P.EK_STEEL_HI),  \* line 335
    fill(20, 20, 8, 12, P.EK_STEEL),  \* line 339
    hl(20, 20, 8, P.EK_STEEL_HI),  \* line 340
    vl(20, 20, 12, P.EK_STEEL_HI),  \* line 341
    px(22, 23, P.EK_RED),  \* line 343
    px(25, 23, P.EK_RED),  \* line 343
    px(23, 24, P.EK_RED),  \* line 344
    px(24, 24, P.EK_RED),  \* line 344
    px(23, 25, P.EK_RED),  \* line 345
    px(24, 25, P.EK_RED),  \* line 345
    px(22, 26, P.EK_RED),  \* line 346
    px(25, 26, P.EK_RED),  \* line 346
    hl(20, 29, 8, P.EK_DARK),  \* line 348
    hl(20, 31, 8, P.EK_STEEL_LO),  \* line 350
    vl(27, 20, 12, P.EK_STEEL_LO),  \* line 351
    fill(32, 20, 8, 12, P.EK_STEEL_LO),  \* line 355
    vl(34, 22, 6, P.EK_DARK),  \* line 357
    vl(37, 23, 5, P.EK_DARK),  \* line 358
    shade(44, 20, 4, 12, P.EK_STEEL, P.EK_STEEL_HI, P.EK_STEEL_LO),  \* line 363
    vl(45, 22, 4, P.EK_RED_LO),  \* line 365
    shade(36, 52, 4, 12, P.EK_STEEL, P.EK_STEEL_HI, P.EK_STEEL_LO),  \* line 363
    vl(37, 54, 4, P.EK_RED_LO),  \* line 365
    shade(4, 20, 4, 12, P.EK_STEEL, P.EK_STEEL_HI, P.EK_STEEL_LO),  \* line 371
    fill(4, 28, 4, 4, P.EK_STEEL_LO),  \* line 372
    hl(4, 28, 4, P.EK_STEEL),  \* line 373
    shade(20, 52, 4, 12, P.EK_STEEL, P.EK_STEEL_HI, P.EK_STEEL_LO),  \* line 371
    fill(20, 60, 4, 4, P.EK_STEEL_LO),  \* line 372
    hl(20, 60, 4, P.EK_STEEL)   \* line 373
  >>)

paint_ally_archer(P) ==
  paint_part(SKIN.head, P.AA_GREEN, P.AA_GREEN_HI, P.AA_GREEN_LO, None, None) \o
  paint_part(SKIN.body, P.AA_GREEN, P.AA_GREEN_HI, P.AA_GREEN_LO, None, None) \o
  paint_part(SKIN.r_arm, P.AA_GREEN, P.AA_GREEN_HI, P.AA_GREEN_LO, None, None) \o
  paint_part(SKIN.r_leg, P.AA_GREEN, P.AA_GREEN_HI, P.AA_GREEN_LO, None, None) \o
  paint_part(SKIN.l_arm, P.AA_GREEN, P.AA_GREEN_HI, P.AA_GREEN_LO, None, None) \o
  paint_part(SKIN.l_leg, P.AA_GREEN, P.AA_GREEN_HI, P.AA_GREEN_LO, None, None) \o
  Do(<<
    fill(8, 8, 8, 3, P.AA_GREEN),  \* line 385
    hl(8, 8, 8, P.AA_GREEN_HI),  \* line 386
    hl(9, 10, 6, P.AA_GREEN_LO),  \* line 388
    fill(9, 11, 6, 4, P.AA_SKIN),  \* line 390
    px(8, 11, P.AA_GREEN),  \* line 391
    px(15, 11, P.AA_GREEN),  \* line 391
    px(8, 12, P.AA_GREEN),  \* line 392
    px(15, 12, P.AA_GREEN),  \* line 392
    px(8, 13, P.AA_GREEN),  \* line 393
    px(15, 13, P.AA_GREEN),  \* line 393
    px(10, 12, P.AA_EYE),  \* line 395
    px(13, 12, P.AA_EYE),  \* line 396
    hl(11, 14, 2, P.AA_SKIN_LO),  \* line 398
    fill(8, 15, 8, 1, P.AA_GREEN_LO),  \* line 400
    fill(8, 0, 8, 8, P.AA_GREEN),  \* line 403
    hl(8, 0, 8, P.AA_GREEN_HI),  \* line 404
    fill(0, 8, 8, 8, P.AA_GREEN),  \* line 409
    fill(0, 11, 8, 4, P.AA_GREEN_LO),  \* line 410
    fill(2, 11, 5, 3, P.AA_SKIN),  \* line 411
    fill(16, 8, 8, 8, P.AA_GREEN),  \* line 409
    fill(16, 11, 8, 4, P.AA_GREEN_LO),  \* line 410
    fill(18, 11, 5, 3, P.AA_SKIN),  \* line 411
    fill(24, 8, 8, 8, P.AA_GREEN),  \* line 415
    px(27, 14, P.AA_GREEN_LO),  \* line 416
    px(28, 14, P.AA_GREEN_LO),  \* line 417
    fill(20, 20, 8, 12, P.AA_TAN),  \* line 421
    hl(20, 20, 8, P.AA_TAN_HI),  \* line 422
    vl(20, 20, 12, P.AA_TAN_HI),  \* line 423
    hl(21, 20, 6, P.AA_GREEN),  \* line 425
    px(26, 21, P.AA_QUIVER),  \* line 427
    px(25, 22, P.AA_QUIVER),  \* line 428
    px(24, 23, P.AA_QUIVER),  \* line 429
    px(23, 24, P.AA_QUIVER),  \* line 430
    px(22, 25, P.AA_QUIVER),  \* line 431
    px(21, 26, P.AA_QUIVER),  \* line 432
    hl(20, 28, 8, P.AA_LEATH),  \* line 434
    px(23, 28, P.AA_GREEN_HI),  \* line 435
    fill(20, 29, 8, 3, P.AA_TAN_LO),  \* line 437
    hl(20, 31, 8, P.AA_TAN_LO),  \* line 438
    vl(27, 20, 12, P.AA_TAN_LO),  \* line 439
    fill(32, 20, 8, 12, P.AA_TAN),  \* line 443
    hl(32, 20, 8, P.AA_TAN_HI),  \* line 444
    fill(37, 21, 2, 6, P.AA_QUIVER),  \* line 446
    vl(37, 21, 5, P.AA_ARROW),  \* line 448
    vl(38, 21, 4, P.AA_ARROW),  \* line 449
    px(37, 21, P.AA_FLETCH),  \* line 451
    px(38, 21, P.AA_FLETCH),  \* line 452
    px(36, 22, P.AA_QUIVER),  \* line 454
    px(35, 23, P.AA_QUIVER),  \* line 455
    hl(32, 31, 8, P.AA_TAN_LO),  \* line 456
    shade(44, 20, 4, 12, P.AA_GREEN, P.AA_GREEN_HI, P.AA_GREEN_LO),  \* line 462
    fill(44, 28, 4, 4, P.AA_LEATH),  \* line 464
    hl(44, 28, 4, P.AA_LEATH_HI),  \* line 465
    hl(44, 29, 4, P.AA_LEATH_LO),  \* line 466
    hl(44, 31, 4, P.AA_LEATH_LO),  \* line 467
    shade(36, 52, 4, 12, P.AA_GREEN, P.AA_GREEN_HI, P.AA_GREEN_LO),  \* line 462
    fill(36, 60, 4, 4, P.AA_LEATH),  \* line 464
    hl(36, 60, 4, P.AA_LEATH_HI),  \* line 465
    hl(36, 61, 4, P.AA_LEATH_LO),  \* line 466
    hl(36, 63, 4, P.AA_LEATH_LO),  \* line 467
    shade(4, 20, 4, 12, P.AA_GREEN, P.AA_GREEN_HI, P.AA_GREEN_LO),  \* line 473
    fill(4, 27, 4, 5, P.AA_LEATH),  \* line 474
    hl(4, 27, 4, P.AA_LEATH_HI),  \* line 475
    hl(4, 31, 4, P.AA_LEATH_LO),  \* line 476
    shade(20, 52, 4, 12, P.AA_GREEN, P.AA_GREEN_HI, P.AA_GREEN_LO),  \* line 473
    fill(20, 59, 4, 5, P.AA_LEATH),  \* line 474
    hl(20, 59, 4, P.AA_LEATH_HI),  \* line 475
    hl(20, 63, 4, P.AA_LEATH_LO)   \* line 476
  >>)

paint_enemy_archer(P) ==
  paint_part(SKIN.head, P.EA_GREEN, P.EA_GREEN_HI, P.EA_GREEN_LO, None, None) \o
  paint_part(SKIN.body, P.EA_GREEN, P.EA_GREEN_HI, P.EA_GREEN_LO, None, None) \o
  paint_part(SKIN.r_arm, P.EA_GREEN, P.EA_GREEN_HI, P.EA_GREEN_LO, None, None) \o
  paint_part(SKIN.r_leg, P.EA_GREEN, P.EA_GREEN_HI, P.EA_GREEN_LO, None, None) \o
  paint_part(SKIN.l_arm, P.EA_GREEN, P.EA_GREEN_HI, P.EA_GREEN_LO, None, None) \o
  paint_part(SKIN.l_leg, P.EA_GREEN, P.EA_GREEN_HI, P.EA_GREEN_LO, None, None) \o
  Do(<<
    fill(8, 8, 8, 8, P.EA_GREEN),  \* line 487
    hl(8, 8, 8, P.EA_GREEN_HI),  \* line 488
    fill(9, 11, 6, 4, P.EA_GREEN_LO),  \* line 490
    px(10, 12, P.EA_EYE),  \* line 492
    px(13, 12, P.EA_EYE),  \* line 493
    hl(8, 15, 8, P.EA_GREEN_LO),  \* line 494
    vl(15, 8, 8, P.EA_GREEN_LO),  \* line 495
    fill(8, 0, 8, 8, P.EA_GREEN),  \* line 498
    fill(20, 20, 8, 12, P.EA_MAROON),  \* line 502
    hl(20, 20, 8, P.EA_MAROON_HI),  \* line 503
    px(26, 21, P.EA_LEATH_LO),  \* line 505
    px(25, 22, P.EA_LEATH_LO),  \* line 506
    px(24, 23, P.EA_LEATH_LO),  \* line 507
    px(23, 24, P.EA_LEATH_LO),  \* line 508
    px(22, 25, P.EA_LEATH_LO),  \* line 509
    hl(20, 28, 8, P.EA_LEATH_LO),  \* line 511
    hl(20, 31, 8, P.EA_MAROON_LO),  \* line 512
    vl(27, 20, 12, P.EA_MAROON_LO),  \* line 513
    fill(32, 20, 8, 12, P.EA_MAROON_LO),  \* line 517
    fill(37, 21, 2, 6, P.EA_LEATH_LO),  \* line 518
    vl(37, 21, 5, P.EA_LEATH),  \* line 519
    vl(38, 21, 4, P.EA_LEATH),  \* line 520
    px(37, 21, P.EA_MAROON),  \* line 522
    px(38, 21, P.EA_MAROON),  \* line 523
    shade(44, 20, 4, 12, P.EA_GREEN, P.EA_GREEN_HI, P.EA_GREEN_LO),  \* line 529
    fill(44, 28, 4, 4, P.EA_LEATH),  \* line 530
    hl(44, 28, 4, P.EA_LEATH_HI),  \* line 531
    shade(36, 52, 4, 12, P.EA_GREEN, P.EA_GREEN_HI, P.EA_GREEN_LO),  \* line 529
    fill(36, 60, 4, 4, P.EA_LEATH),  \* line 530
    hl(36, 60, 4, P.EA_LEATH_HI),  \* line 531
    shade(4, 20, 4, 12, P.EA_MAROON, P.EA_MAROON_HI, P.EA_MAROON_LO),  \* line 537
    fill(4, 27, 4, 5, P.EA_LEATH),  \* line 538
    hl(4, 27, 4, P.EA_LEATH_HI),  \* line 539
    shade(20, 52, 4, 12, P.EA_MAROON, P.EA_MAROON_HI, P.EA_MAROON_LO),  \* line 537
    fill(20, 59, 4, 5, P.EA_LEATH),  \* line 538
    hl(20, 59, 4, P.EA_LEATH_HI)   \* line 539
  >>)

paint_ally_wizard(P) ==
  paint_part(SKIN.head, P.AW_PURP, P.AW_PURP_HI, P.AW_PURP_LO, None, None) \o
  paint_part(SKIN.body, P.AW_PURP, P.AW_PURP_HI, P.AW_PURP_LO, None, None) \o
  paint_part(SKIN.r_arm, P.AW_PURP, P.AW_PURP_HI, P.AW_PURP_LO, None, None) \o
  paint_part(SKIN.r_leg, P.AW_PURP, P.AW_PURP_HI, P.AW_PURP_LO, None, None) \o
  paint_part(SKIN.l_arm, P.AW_PURP, P.AW_PURP_HI, P.AW_PURP_LO, None, None) \o
  paint_part(SKIN.l_leg, P.AW_PURP, P.AW_PURP_HI, P.AW_PURP_LO, None, None) \o
  Do(<<
    fill(8, 8, 8, 3, P.AW_PURP),  \* line 551
    hl(8, 8, 8, P.AW_PURP_HI),  \* line 552
    hl(9, 9, 6, P.AW_PURP_HI),  \* line 553
    hl(8, 10, 8, P.AW_GOLD),  \* line 555
    fill(9, 11, 6, 2, P.AW_SKIN),  \* line 557
    px(8, 11, P.AW_PURP_LO),  \* line 558
    px(15, 11, P.AW_PURP_LO),  \* line 559
    px(10, 11, <<50, 50, 80, 255>>),  \* line 561
    px(13, 11, <<50, 50, 80, 255>>),  \* line 562
    fill(9, 13, 6, 2, P.AW_BEARD),  \* line 564
    fill(10, 12, 4, 1, P.AW_BEARD_HI),  \* line 565
    px(8, 13, P.AW_PURP_LO),  \* line 566
    px(15, 13, P.AW_PURP_LO),  \* line 567
    fill(10, 14, 4, 1, P.AW_BEARD),  \* line 568
    fill(11, 15, 2, 1, P.AW_BEARD_LO),  \* line 569
    fill(8, 0, 8, 8, P.AW_PURP),  \* line 573
    fill(10, 0, 4, 2, P.AW_PURP_HI),  \* line 575
    fill(11, 0, 2, 1, P.AW_PURP_HI),  \* line 576
    hl(8, 7, 8, P.AW_GOLD),  \* line 578
    fill(20, 20, 8, 12, P.AW_PURP),  \* line 582
    hl(20, 20, 8, P.AW_PURP_HI),  \* line 583
    vl(20, 20, 12, P.AW_PURP_HI),  \* line 584
    hl(21, 20, 6, P.AW_GOLD),  \* line 586
    vl(22, 22, 8, P.AW_PURP_LO),  \* line 588
    vl(25, 22, 8, P.AW_PURP_LO),  \* line 589
    px(23, 23, P.AW_GOLD),  \* line 591
    px(24, 23, P.AW_GOLD),  \* line 592
    px(23, 22, P.AW_GOLD),  \* line 593
    px(24, 24, P.AW_GOLD),  \* line 594
    px(22, 23, P.AW_GOLD),  \* line 595
    px(25, 23, P.AW_GOLD),  \* line 596
    hl(20, 27, 8, P.AW_GOLD),  \* line 598
    hl(21, 27, 6, P.AW_GOLD_LO),  \* line 599
    hl(20, 31, 8, P.AW_PURP_LO),  \* line 601
    hl(21, 31, 6, P.AW_GOLD_LO),  \* line 603
    vl(27, 20, 12, P.AW_PURP_LO),  \* line 604
    fill(32, 20, 8, 12, P.AW_PURP_LO),  \* line 608
    vl(34, 21, 10, P.AW_PURP),  \* line 609
    vl(37, 21, 10, P.AW_PURP),  \* line 610
    hl(33, 31, 6, P.AW_GOLD_LO),  \* line 611
    shade(44, 20, 4, 12, P.AW_PURP, P.AW_PURP_HI, P.AW_PURP_LO),  \* line 617
    hl(44, 30, 4, P.AW_PURP_HI),  \* line 619
    fill(44, 30, 4, 2, P.AW_CYAN),  \* line 621
    hl(44, 31, 4, P.AW_CYAN_LO),  \* line 622
    shade(36, 52, 4, 12, P.AW_PURP, P.AW_PURP_HI, P.AW_PURP_LO),  \* line 617
    hl(36, 62, 4, P.AW_PURP_HI),  \* line 619
    fill(36, 62, 4, 2, P.AW_CYAN),  \* line 621
    hl(36, 63, 4, P.AW_CYAN_LO),  \* line 622
    shade(4, 20, 4, 12, P.AW_PURP, P.AW_PURP_HI, P.AW_PURP_LO),  \* line 628
    vl(5, 21, 10, P.AW_PURP_LO),  \* line 630
    fill(4, 30, 4, 2, P.AW_PURP_LO),  \* line 632
    shade(20, 52, 4, 12, P.AW_PURP, P.AW_PURP_HI, P.AW_PURP_LO),  \* line 628
    vl(21, 53, 10, P.AW_PURP_LO),  \* line 630
    fill(20, 62, 4, 2, P.AW_PURP_LO)   \* line 632
  >>)

paint_enemy_wizard(P) ==
  paint_part(SKIN.head, P.EW_DARK, P.EW_DARK_HI, P.EW_DARK_LO, None, None) \o
  paint_part(SKIN.body, P.EW_DARK, P.EW_DARK_HI, P.EW_DARK_LO, None, None) \o
  paint_part(SKIN.r_arm, P.EW_DARK, P.EW_DARK_HI, P.EW_DARK_LO, None, None) \o
  paint_part(SKIN.r_leg, P.EW_DARK, P.EW_DARK_HI, P.EW_DARK_LO, None, None) \o
  paint_part(SKIN.l_arm, P.EW_DARK, P.EW_DARK_HI, P.EW_DARK_LO, None, None) \o
  paint_part(SKIN.l_leg, P.EW_DARK, P.EW_DARK_HI, P.EW_DARK_LO, None, None) \o
  Do(<<
    fill(8, 8, 8, 8, P.EW_DARK),  \* line 643
    hl(8, 8, 8, P.EW_DARK_HI),  \* line 644
    fill(9, 11, 6, 4, P.EW_SHADOW),  \* line 646
    px(10, 12, P.EW_EYE),  \* line 648
    px(13, 12, P.EW_EYE),  \* line 649
    px(9, 12, <<80, 10, 20, 255>>),  \* line 651
    px(14, 12, <<80, 10, 20, 255>>),  \* line 652
    px(10, 11, <<60, 5, 15, 255>>),  \* line 653
    px(13, 11, <<60, 5, 15, 255>>),  \* line 654
    hl(8, 15, 8, P.EW_DARK_LO),  \* line 655
    vl(15, 8, 8, P.EW_DARK_LO),  \* line 656
    fill(8, 0, 8, 8, P.EW_DARK),  \* line 659
    fill(20, 20, 8, 12, P.EW_DARK),  \* line 663
    hl(20, 20, 8, P.EW_DARK_HI),  \* line 664
    vl(22, 22, 8, P.EW_DARK_LO),  \* line 666
    vl(25, 22, 8, P.EW_DARK_LO),  \* line 667
    px(23, 23, P.EW_RED),  \* line 669
    px(24, 23, P.EW_RED),  \* line 669
    px(22, 24, P.EW_RED),  \* line 670
    px(25, 24, P.EW_RED),  \* line 670
    px(23, 25, P.EW_RED),  \* line 671
    px(24, 25, P.EW_RED),  \* line 671
    hl(20, 27, 8, P.EW_RED),  \* line 673
    hl(20, 31, 8, P.EW_DARK_LO),  \* line 675
    vl(27, 20, 12, P.EW_DARK_LO),  \* line 676
    fill(32, 20, 8, 12, P.EW_DARK_LO),  \* line 680
    px(34, 23, P.EW_DARK_HI),  \* line 682
    px(37, 23, P.EW_DARK_HI),  \* line 682
    px(35, 24, P.EW_DARK_HI),  \* line 683
    px(36, 24, P.EW_DARK_HI),  \* line 683
    hl(34, 25, 4, P.EW_DARK_HI),  \* line 684
    shade(44, 20, 4, 12, P.EW_DARK, P.EW_DARK_HI, P.EW_DARK_LO),  \* line 690
    fill(44, 30, 4, 2, P.EW_FIRE),  \* line 692
    px(45, 30, P.EW_FIRE_HI),  \* line 693
    hl(44, 31, 4, P.EW_FIRE_LO),  \* line 694
    shade(36, 52, 4, 12, P.EW_DARK, P.EW_DARK_HI, P.EW_DARK_LO),  \* line 690
    fill(36, 62, 4, 2, P.EW_FIRE),  \* line 692
    px(37, 62, P.EW_FIRE_HI),  \* line 693
    hl(36, 63, 4, P.EW_FIRE_LO),  \* line 694
    shade(4, 20, 4, 12, P.EW_DARK, P.EW_DARK_HI, P.EW_DARK_LO),  \* line 700
    vl(5, 21, 10, P.EW_DARK_LO),  \* line 701
    shade(20, 52, 4, 12, P.EW_DARK, P.EW_DARK_HI, P.EW_DARK_LO),  \* line 700
    vl(21, 53, 10, P.EW_DARK_LO)   \* line 701
  >>)

paint_ally_dark_knight(P) ==
  paint_part(SKIN.head, P.AD_NAVY, P.AD_NAVY_HI, P.AD_NAVY_LO, None, None) \o
  paint_part(SKIN.body, P.AD_NAVY, P.AD_NAVY_HI, P.AD_NAVY_LO, None, None) \o
  paint_part(SKIN.r_arm, P.AD_NAVY, P.AD_NAVY_HI, P.AD_NAVY_LO, None, None) \o
  paint_part(SKIN.r_leg, P.AD_NAVY, P.AD_NAVY_HI, P.AD_NAVY_LO, None, None) \o
  paint_part(SKIN.l_arm, P.AD_NAVY, P.AD_NAVY_HI, P.AD_NAVY_LO, None, None) \o
  paint_part(SKIN.l_leg, P.AD_NAVY, P.AD_NAVY_HI, P.AD_NAVY_LO, None, None) \o
  Do(<<
    fill(8, 8, 8, 8, P.AD_NAVY),  \* line 712
    hl(8, 8, 8, P.AD_NAVY_HI),  \* line 713
    hl(8, 9, 8, P.AD_NAVY_HI),  \* line 714
    hl(9, 11, 6, P.AD_BLUE),  \* line 716
    hl(9, 12, 6, P.AD_BLUE_LO),  \* line 717
    px(11, 11, P.AD_BLUE_HI),  \* line 719
    px(12, 11, P.AD_BLUE_HI),  \* line 720
    vl(8, 11, 4, P.AD_NAVY_HI),  \* line 722
    vl(15, 11, 4, P.AD_NAVY_LO),  \* line 723
    hl(8, 15, 8, P.AD_NAVY_LO),  \* line 724
    fill(8, 0, 8, 8, P.AD_NAVY),  \* line 727
    hl(8, 0, 8, P.AD_NAVY_HI),  \* line 728
    fill(20, 20, 8, 12, P.AD_NAVY),  \* line 732
    hl(20, 20, 8, P.AD_NAVY_HI),  \* line 733
    vl(20, 20, 12, P.AD_NAVY_HI),  \* line 734
    px(23, 22, P.AD_BLUE),  \* line 736
    px(24, 22, P.AD_BLUE),  \* line 737
    px(22, 23, P.AD_BLUE),  \* line 738
    px(25, 23, P.AD_BLUE),  \* line 738
    px(23, 23, P.AD_BLUE_HI),  \* line 739
    px(24, 23, P.AD_BLUE_HI),  \* line 739
    px(22, 24, P.AD_BLUE),  \* line 740
    px(25, 24, P.AD_BLUE),  \* line 740
    px(23, 25, P.AD_BLUE),  \* line 741
    px(24, 25, P.AD_BLUE),  \* line 742
    hl(20, 26, 8, P.AD_NAVY_LO),  \* line 744
    hl(20, 29, 8, P.AD_NAVY_LO),  \* line 745
    px(20, 21, P.AD_SILVER),  \* line 747
    px(27, 21, P.AD_SILVER),  \* line 748
    hl(20, 31, 8, P.AD_NAVY_LO),  \* line 750
    vl(27, 20, 12, P.AD_NAVY_LO),  \* line 751
    fill(32, 20, 8, 12, P.AD_NAVY_LO),  \* line 755
    hl(32, 20, 8, P.AD_BLUE_LO),  \* line 756
    vl(35, 21, 10, P.AD_NAVY),  \* line 757
    vl(37, 21, 10, P.AD_NAVY),  \* line 758
    shade(44, 20, 4, 12, P.AD_NAVY, P.AD_NAVY_HI, P.AD_NAVY_LO),  \* line 764
    vl(45, 22, 6, P.AD_BLUE),  \* line 765
    fill(44, 29, 4, 3, P.AD_NAVY_LO),  \* line 767
    hl(44, 29, 4, P.AD_NAVY),  \* line 768
    shade(36, 52, 4, 12, P.AD_NAVY, P.AD_NAVY_HI, P.AD_NAVY_LO),  \* line 764
    vl(37, 54, 6, P.AD_BLUE),  \* line 765
    fill(36, 61, 4, 3, P.AD_NAVY_LO),  \* line 767
    hl(36, 61, 4, P.AD_NAVY),  \* line 768
    shade(4, 20, 4, 12, P.AD_NAVY, P.AD_NAVY_HI, P.AD_NAVY_LO),  \* line 774
    fill(4, 28, 4, 4, P.AD_NAVY_LO),  \* line 775
    hl(4, 28, 4, P.AD_NAVY),  \* line 776
    px(5, 31, P.AD_SILVER),  \* line 777
    px(6, 31, P.AD_SILVER),  \* line 778
    shade(20, 52, 4, 12, P.AD_NAVY, P.AD_NAVY_HI, P.AD_NAVY_LO),  \* line 774
    fill(20, 60, 4, 4, P.AD_NAVY_LO),  \* line 775
    hl(20, 60, 4, P.AD_NAVY),  \* line 776
    px(21, 63, P.AD_SILVER),  \* line 777
    px(22, 63, P.AD_SILVER)   \* line 778
  >>)

paint_enemy_dark_knight(P) ==
  paint_part(SKIN.head, P.ED_BLACK, P.ED_BLACK_HI, P.ED_BLACK_LO, None, None) \o
  paint_part(SKIN.body, P.ED_BLACK, P.ED_BLACK_HI, P.ED_BLACK_LO, None, None) \o
  paint_part(SKIN.r_arm, P.ED_BLACK, P.ED_BLACK_HI, P.ED_BLACK_LO, None, None) \o
  paint_part(SKIN.r_leg, P.ED_BLACK, P.ED_BLACK_HI, P.ED_BLACK_LO, None, None) \o
  paint_part(SKIN.l_arm, P.ED_BLACK, P.ED_BLACK_HI, P.ED_BLACK_LO, None, None) \o
  paint_part(SKIN.l_leg, P.ED_BLACK, P.ED_BLACK_HI, P.ED_BLACK_LO, None, None) \o
  Do(<<
    fill(8, 8, 8, 8, P.ED_BLACK),  \* line 789
    hl(8, 8, 8, P.ED_BLACK_HI),  \* line 790
    hl(9, 11, 6, <<20, 5, 5, 255>>),  \* line 792
    px(10, 11, P.ED_CRIM_HI),  \* line 793
    px(13, 11, P.ED_CRIM_HI),  \* line 794
    px(9, 11, P.ED_CRIM),  \* line 796
    px(14, 11, P.ED_CRIM),  \* line 797
    px(14, 9, P.ED_RUST),  \* line 799
    px(13, 10, P.ED_RUST),  \* line 800
    px(9, 14, P.ED_RUST),  \* line 801
    hl(8, 15, 8, P.ED_BLACK_LO),  \* line 802
    fill(8, 0, 8, 8, P.ED_BLACK),  \* line 805
    px(10, 0, P.ED_BLACK_HI),  \* line 806
    px(13, 0, P.ED_BLACK_HI),  \* line 807
    px(10, 1, P.ED_BLACK_HI),  \* line 808
    px(13, 1, P.ED_BLACK_HI),  \* line 809
    fill(20, 20, 8, 12, P.ED_BLACK),  \* line 813
    hl(20, 20, 8, P.ED_BLACK_HI),  \* line 814
    px(22, 23, P.ED_CRIM),  \* line 816
    px(23, 24, P.ED_CRIM),  \* line 817
    px(24, 25, P.ED_CRIM),  \* line 818
    px(25, 24, P.ED_CRIM),  \* line 819
    px(24, 23, P.ED_CRIM),  \* line 820
    px(26, 22, P.ED_RUST),  \* line 822
    px(21, 27, P.ED_RUST),  \* line 823
    px(26, 28, P.ED_RUST),  \* line 824
    hl(20, 26, 4, P.ED_BLACK_LO),  \* line 826
    hl(24, 27, 4, P.ED_BLACK_LO),  \* line 827
    px(20, 21, P.ED_CRIM),  \* line 829
    px(27, 21, P.ED_CRIM),  \* line 830
    hl(20, 31, 8, P.ED_BLACK_LO),  \* line 831
    vl(27, 20, 12, P.ED_BLACK_LO),  \* line 832
    fill(32, 20, 8, 12, P.ED_BLACK_LO),  \* line 836
    vl(34, 22, 6, P.ED_RUST),  \* line 837
    vl(37, 23, 5, P.ED_RUST),  \* line 838
    shade(44, 20, 4, 12, P.ED_BLACK, P.ED_BLACK_HI, P.ED_BLACK_LO),  \* line 844
    vl(45, 22, 4, P.ED_CRIM),  \* line 845
    shade(36, 52, 4, 12, P.ED_BLACK, P.ED_BLACK_HI, P.ED_BLACK_LO),  \* line 844
    vl(37, 54, 4, P.ED_CRIM),  \* line 845
    shade(4, 20, 4, 12, P.ED_BLACK, P.ED_BLACK_HI, P.ED_BLACK_LO),  \* line 851
    fill(4, 28, 4, 4, P.ED_BLACK_LO),  \* line 852
    shade(20, 52, 4, 12, P.ED_BLACK, P.ED_BLACK_HI, P.ED_BLACK_LO),  \* line 851
    fill(20, 60, 4, 4, P.ED_BLACK_LO)   \* line 852
  >>)

paint_boss_siege_lord(P) ==
  paint_part(SKIN.head, P.SL_BLACK, P.SL_BLACK_HI, P.SL_BLACK_LO, None, None) \o
  paint_part(SKIN.body, P.SL_BLACK, P.SL_BLACK_HI, P.SL_BLACK_LO, None, None) \o
  paint_part(SKIN.r_arm, P.SL_BLACK, P.SL_BLACK_HI, P.SL_BLACK_LO, None, None) \o
  paint_part(SKIN.r_leg, P.SL_BLACK, P.SL_BLACK_HI, P.SL_BLACK_LO, None, None) \o
  paint_part(SKIN.l_arm, P.SL_BLACK, P.SL_BLACK_HI, P.SL_BLACK_LO, None, None) \o
  paint_part(SKIN.l_leg, P.SL_BLACK, P.SL_BLACK_HI, P.SL_BLACK_LO, None, None) \o
  Do(<<
    fill(8, 8, 8, 8, P.SL_BLACK),  \* line 863
    hl(8, 8, 8, P.SL_BLACK_HI),  \* line 864
    hl(8, 15, 8, P.SL_GOLD),  \* line 866
    px(9, 11, P.SL_CRIM),  \* line 868
    px(10, 11, P.SL_CRIM_HI),  \* line 868
    px(13, 11, P.SL_CRIM_HI),  \* line 869
    px(14, 11, P.SL_CRIM),  \* line 869
    px(9, 10, <<60, 0, 0, 255>>),  \* line 871
    px(10, 10, <<80, 5, 5, 255>>),  \* line 872
    px(13, 10, <<80, 5, 5, 255>>),  \* line 873
    px(14, 10, <<60, 0, 0, 255>>),  \* line 874
    px(8, 8, P.SL_GOLD_HI),  \* line 876
    px(9, 8, P.SL_GOLD),  \* line 876
    px(14, 8, P.SL_GOLD),  \* line 877
    px(15, 8, P.SL_GOLD_HI),  \* line 877
    px(8, 9, P.SL_GOLD),  \* line 878
    px(15, 9, P.SL_GOLD),  \* line 879
    fill(8, 0, 8, 8, P.SL_BLACK),  \* line 883
    hl(8, 6, 8, P.SL_GOLD),  \* line 885
    hl(8, 7, 8, P.SL_GOLD_HI),  \* line 886
    px(8, 5, P.SL_GOLD_HI),  \* line 887
    px(10, 5, P.SL_GOLD_HI),  \* line 888
    px(12, 5, P.SL_GOLD_HI),  \* line 889
    px(14, 5, P.SL_GOLD_HI),  \* line 890
    px(9, 4, P.SL_GOLD),  \* line 891
    px(11, 4, P.SL_GOLD),  \* line 892
    px(13, 4, P.SL_GOLD),  \* line 893
    px(15, 4, P.SL_GOLD),  \* line 894
    fill(0, 8, 8, 8, P.SL_BLACK),  \* line 899
    hl(0, 15, 8, P.SL_GOLD),  \* line 900
    fill(16, 8, 8, 8, P.SL_BLACK),  \* line 899
    hl(16, 15, 8, P.SL_GOLD),  \* line 900
    fill(20, 20, 8, 12, P.SL_BLACK),  \* line 904
    hl(20, 20, 8, P.SL_GOLD),  \* line 906
    vl(20, 20, 12, P.SL_GOLD_LO),  \* line 908
    vl(27, 20, 12, P.SL_GOLD_LO),  \* line 909
    hl(21, 22, 6, P.SL_GOLD_LO),  \* line 912
    hl(21, 27, 6, P.SL_GOLD_LO),  \* line 913
    vl(21, 22, 6, P.SL_GOLD_LO),  \* line 914
    vl(26, 22, 6, P.SL_GOLD_LO),  \* line 915
    px(22, 23, P.SL_CRIM_HI),  \* line 917
    px(25, 23, P.SL_CRIM_HI),  \* line 917
    px(23, 24, P.SL_CRIM),  \* line 918
    px(24, 24, P.SL_CRIM),  \* line 918
    px(23, 25, P.SL_CRIM_HI),  \* line 919
    px(24, 25, P.SL_CRIM_HI),  \* line 919
    px(22, 25, P.SL_CRIM),  \* line 920
    px(25, 25, P.SL_CRIM),  \* line 920
    px(22, 26, P.SL_CRIM),  \* line 921
    px(25, 26, P.SL_CRIM),  \* line 921
    px(23, 26, P.SL_CRIM_HI),  \* line 922
    px(24, 26, P.SL_CRIM_HI),  \* line 922
    hl(20, 28, 8, P.SL_GOLD),  \* line 924
    px(23, 28, P.SL_GOLD_HI),  \* line 925
    px(24, 28, P.SL_GOLD_HI),  \* line 926
    hl(20, 31, 8, P.SL_GOLD_LO),  \* line 928
    fill(32, 20, 8, 12, P.SL_CRIM),  \* line 932
    hl(32, 20, 8, P.SL_GOLD),  \* line 933
    vl(32, 20, 12, P.SL_GOLD_LO),  \* line 934
    vl(39, 20, 12, P.SL_GOLD_LO),  \* line 935
    vl(34, 22, 8, <<120, 0, 0, 255>>),  \* line 937
    vl(37, 22, 8, <<120, 0, 0, 255>>),  \* line 938
    hl(32, 31, 8, P.SL_GOLD_LO),  \* line 939
    shade(44, 20, 4, 12, P.SL_BLACK, P.SL_BLACK_HI, P.SL_BLACK_LO),  \* line 945
    hl(44, 20, 4, P.SL_GOLD),  \* line 947
    vl(45, 23, 4, P.SL_CRIM),  \* line 949
    hl(44, 29, 4, P.SL_GOLD_LO),  \* line 951
    fill(44, 30, 4, 2, P.SL_BLACK_LO),  \* line 953
    shade(36, 52, 4, 12, P.SL_BLACK, P.SL_BLACK_HI, P.SL_BLACK_LO),  \* line 945
    hl(36, 52, 4, P.SL_GOLD),  \* line 947
    vl(37, 55, 4, P.SL_CRIM),  \* line 949
    hl(36, 61, 4, P.SL_GOLD_LO),  \* line 951
    fill(36, 62, 4, 2, P.SL_BLACK_LO),  \* line 953
    shade(4, 20, 4, 12, P.SL_BLACK, P.SL_BLACK_HI, P.SL_BLACK_LO),  \* line 959
    px(5, 24, P.SL_GOLD),  \* line 961
    px(6, 24, P.SL_GOLD),  \* line 962
    px(5, 25, P.SL_GOLD_LO),  \* line 963
    px(6, 25, P.SL_GOLD_LO),  \* line 964
    hl(4, 28, 4, P.SL_GOLD_LO),  \* line 966
    fill(4, 29, 4, 3, P.SL_BLACK_LO),  \* line 968
    shade(20, 52, 4, 12, P.SL_BLACK, P.SL_BLACK_HI, P.SL_BLACK_LO),  \* line 959
    px(21, 56, P.SL_GOLD),  \* line 961
    px(22, 56, P.SL_GOLD),  \* line 962
    px(21, 57, P.SL_GOLD_LO),  \* line 963
    px(22, 57, P.SL_GOLD_LO),  \* line 964
    hl(20, 60, 4, P.SL_GOLD_LO),  \* line 966
    fill(20, 61, 4, 3, P.SL_BLACK_LO)   \* line 968
  >>)

\* ------------------------------------------- armor model textures (64x32)
ARM_UV == _faces(<<40,16>>, <<4,12,4>>)

LEG_UV == _faces(<<0,16>>, <<4,12,4>>)

BODY_UV == _faces(<<16,16>>, <<8,12,4>>)

HEAD_UV == _faces(<<0,0>>, <<8,8,8>>)

\* paint_armor_tier, first half: the calls made on main_img.
paint_armor_tier_main(base, hi, lo, spec, accent, accent2, chainmail, stitch, trim_all, glow) ==
    LET trim == trim_all /\ Given(accent)
        Helmet(fn, fx, fy, fw, fh) ==
            IF fn = "front"
            THEN Do(<< shade(fx, fy, fw, fh, base, hi, lo),
                    fill(fx+1, fy+fh-3, fw-2, 2, lo) >>)
                 \o When(Given(spec), << px(fx+2, fy+1, spec) >>)
                 \o When(trim, << hl(fx, fy+fh-1, fw, accent) >>)
            ELSE IF fn = "top"
            THEN Do(<< shade(fx, fy, fw, fh, hi, hi, base) >>)
                 \o When(trim, << hl(fx, fy+fh-1, fw, accent) >>)
            ELSE Do(<< shade(fx, fy, fw, fh, base, hi, lo) >>)
                 \o When(trim, << hl(fx, fy+fh-1, fw, accent) >>)
        Chest(fn, fx, fy, fw, fh) ==
            IF fn = "front"
            THEN (IF chainmail
                  THEN Do(<< dither(fx, fy, fw, fh, base, lo),
                          hl(fx, fy, fw, hi),
                          hl(fx, fy+fh-1, fw, lo) >>)
                  ELSE Do(<< shade(fx, fy, fw, fh, base, hi, lo) >>))
                 \o When(stitch,
                         << vl(fx+2, fy+1, fh-2, lo),
                            vl(fx+5, fy+1, fh-2, lo) >>)
                 \o When(Given(spec),
                         << px(fx+3, fy+2, spec),
                            px(fx+4, fy+2, spec) >>)
                 \o When(Given(accent) /\ ~chainmail,
                         << hl(fx, fy + (fh \div 2), fw, accent) >>)
                 \o When(Given(accent2),
                         << px(fx+3, fy+4, accent2),
                            px(fx+4, fy+4, accent2) >>)
                 \o When(trim,
                         << hl(fx, fy, fw, accent),
                            hl(fx, fy+fh-1, fw, accent),
                            vl(fx, fy, fh, accent),
                            vl(fx+fw-1, fy, fh, accent) >>)
                 \o When(glow,
                         << px(fx+2, fy+3, <<200, 160, 255, 255>> ),
                            px(fx+5, fy+3, <<200, 160, 255, 255>> ) >>)
            ELSE Do(<< shade(fx, fy, fw, fh, base, hi, lo) >>)
                 \o When(chainmail,
                         << dither(fx+1, fy+1, fw-2, fh-2, base, lo) >>)
        Arms(fn, fx, fy, fw, fh) ==
            (IF chainmail
             THEN Do(<< dither(fx, fy, fw, fh, base, lo) >>)
             ELSE Do(<< shade(fx, fy, fw, fh, base, hi, lo) >>))
            \o When(trim, << hl(fx, fy, fw, accent) >>)
        Boots(fn, fx, fy, fw, fh) ==
            Do(<< shade(fx, fy, fw, fh, base, hi, lo) >>)
            \o When(trim, << hl(fx, fy, fw, accent) >>)
    IN  Flatten([n \in 1 .. 6 |-> LET e == items(HEAD_UV)[n] IN Helmet(e[1], e[2], e[3], e[4], e[5])])
        \o Flatten([n \in 1 .. 6 |-> LET e == items(BODY_UV)[n] IN Chest(e[1], e[2], e[3], e[4], e[5])])
        \o Flatten([n \in 1 .. 6 |-> LET e == items(ARM_UV)[n] IN Arms(e[1], e[2], e[3], e[4], e[5])])
        \o Flatten([n \in 1 .. 6 |-> LET e == items(LEG_UV)[n] IN Boots(e[1], e[2], e[3], e[4], e[5])])

\* paint_armor_tier, second half: the calls made on legs_img.
paint_armor_tier_legs(base, hi, lo, spec, accent, accent2, chainmail, stitch, trim_all, glow) ==
    LET trim == trim_all /\ Given(accent)
        Leggings(fn, fx, fy, fw, fh) ==
            Do(<< shade(fx, fy, fw, fh, base, hi, lo) >>)
            \o When(chainmail /\ fn \in {"front", "back"},
                    << dither(fx+1, fy+1, fw-2, fh-2, base, lo) >>)
        Legs(fn, fx, fy, fw, fh) ==
            (IF chainmail
             THEN Do(<< dither(fx, fy, fw, fh, base, lo),
                     hl(fx, fy, fw, hi),
                     hl(fx, fy+fh-1, fw, lo) >>)
             ELSE Do(<< shade(fx, fy, fw, fh, base, hi, lo) >>))
            \o When(stitch, << vl(fx+1, fy+1, fh-2, lo) >>)
            \o When(trim, << hl(fx, fy, fw, accent) >>)
    IN  Flatten([n \in 1 .. 6 |-> LET e == items(BODY_UV)[n] IN Leggings(e[1], e[2], e[3], e[4], e[5])])
        \o Flatten([n \in 1 .. 6 |-> LET e == items(LEG_UV)[n] IN Legs(e[1], e[2], e[3], e[4], e[5])])


\* ------------------------------------------------- generation functions
Roots == {<<"repo">>, <<"home", "mk">>}

ENTITY_DIR(r) == r \o <<"MegaKnights_RP", "textures", "entity">>

ITEMS_DIR(r) == r \o <<"MegaKnights_RP", "textures", "items">>

ARMOR_DIR(r) == r \o <<"MegaKnights_RP", "textures", "models", "armor">>

\* os.path.join(dir, name)
join(dir, name) == dir \o <<name>>

\* os.makedirs(d, exist_ok=True): d and every missing ancestor
makedirs(ds, d) == ds \cup {SubSeq(d, 1, k) : k \in 1..Len(d)}

\* fault injected for C3: a save that leaves an existing file as it is
save_keep_existing(dk, path, im) == dk @@ (path :> im)

\* img.save(path): the file at path now holds the image
save(dk, path, im) == (path :> im) @@ dk

\* fault injected for C5: the directory test made on the file path itself,
\* so every save raises FileNotFoundError
dirname_whole(path) == path

\* the directory a path lies in
dirname(path) == SubSeq(path, 1, Len(path) - 1)

skins ==
    << [name |-> "mk_ally_knight",       painter |-> "paint_ally_knight"],
       [name |-> "mk_ally_archer",       painter |-> "paint_ally_archer"],
       [name |-> "mk_ally_wizard",       painter |-> "paint_ally_wizard"],
       [name |-> "mk_ally_dark_knight",  painter |-> "paint_ally_dark_knight"],
       [name |-> "mk_enemy_knight",      painter |-> "paint_enemy_knight"],
       [name |-> "mk_enemy_archer",      painter |-> "paint_enemy_archer"],
       [name |-> "mk_enemy_wizard",      painter |-> "paint_enemy_wizard"],
       [name |-> "mk_enemy_dark_knight", painter |-> "paint_enemy_dark_knight"],
       [name |-> "mk_boss_siege_lord",   painter |-> "paint_boss_siege_lord"] >>

\* keyword arguments a tier does not pass keep paint_armor_tier's defaults
TierDefaults ==
    [spec |-> None, accent |-> None, accent2 |-> None, chainmail |-> FALSE,
     stitch |-> FALSE, trim_all |-> FALSE, glow |-> FALSE]

tiers ==
    << [name |-> "mk_page",
        params |-> [base |-> COLOR_PALETTES.PAGE, hi |-> COLOR_PALETTES.PAGE_HI, lo |-> COLOR_PALETTES.PAGE_LO, stitch |-> TRUE]],
       [name |-> "mk_squire",
        params |-> [base |-> COLOR_PALETTES.SQUIRE, hi |-> COLOR_PALETTES.SQUIRE_HI, lo |-> COLOR_PALETTES.SQUIRE_LO, chainmail |-> TRUE]],
       [name |-> "mk_knight",
        params |-> [base |-> COLOR_PALETTES.KNIGHT, hi |-> COLOR_PALETTES.KNIGHT_HI, lo |-> COLOR_PALETTES.KNIGHT_LO, spec |-> COLOR_PALETTES.KNIGHT_SPEC]],
       [name |-> "mk_champion",
        params |-> [base |-> COLOR_PALETTES.CHAMP, hi |-> COLOR_PALETTES.CHAMP_HI, lo |-> COLOR_PALETTES.CHAMP_LO, spec |-> COLOR_PALETTES.CHAMP_SPEC,
                    accent |-> COLOR_PALETTES.CHAMP_GEM, accent2 |-> COLOR_PALETTES.CHAMP_GEM]],
       [name |-> "mk_mega_knight",
        params |-> [base |-> COLOR_PALETTES.MEGA, hi |-> COLOR_PALETTES.MEGA_HI, lo |-> COLOR_PALETTES.MEGA_LO, accent |-> COLOR_PALETTES.MEGA_GOLD,
                    trim_all |-> TRUE, glow |-> TRUE]] >>

\* paint_armor_tier(main_img, legs_img, **params)
TierArgs(params) == params @@ TierDefaults

tier_colors ==
    << [tier |-> "page",        base |-> COLOR_PALETTES.PAGE,   hi |-> COLOR_PALETTES.PAGE_HI,   lo |-> COLOR_PALETTES.PAGE_LO],
       [tier |-> "squire",      base |-> COLOR_PALETTES.SQUIRE, hi |-> COLOR_PALETTES.SQUIRE_HI, lo |-> COLOR_PALETTES.SQUIRE_LO],
       [tier |-> "knight",      base |-> COLOR_PALETTES.KNIGHT, hi |-> COLOR_PALETTES.KNIGHT_HI, lo |-> COLOR_PALETTES.KNIGHT_LO],
       [tier |-> "champion",    base |-> COLOR_PALETTES.CHAMP,  hi |-> COLOR_PALETTES.CHAMP_HI,  lo |-> COLOR_PALETTES.CHAMP_LO],
       [tier |-> "mega_knight", base |-> COLOR_PALETTES.MEGA,   hi |-> COLOR_PALETTES.MEGA_HI,   lo |-> COLOR_PALETTES.MEGA_LO] >>

pieces ==
    << [piece |-> "helmet",     shape |-> HELMET_SHAPE],
       [piece |-> "chestplate", shape |-> CHEST_SHAPE],
       [piece |-> "leggings",   shape |-> LEGS_SHAPE],
       [piece |-> "boots",      shape |-> BOOTS_SHAPE] >>

token_configs ==
    << [name |-> "mk_squire_token",      base |-> COLOR_PALETTES.SQUIRE, hi |-> COLOR_PALETTES.SQUIRE_HI, lo |-> COLOR_PALETTES.SQUIRE_LO, symbol |-> TOKEN_CROSS],
       [name |-> "mk_knight_token",      base |-> COLOR_PALETTES.KNIGHT, hi |-> COLOR_PALETTES.KNIGHT_HI, lo |-> COLOR_PALETTES.KNIGHT_LO, symbol |-> TOKEN_CROSS],
       [name |-> "mk_champion_token",    base |-> COLOR_PALETTES.CHAMP,  hi |-> COLOR_PALETTES.CHAMP_HI,  lo |-> COLOR_PALETTES.CHAMP_LO,  symbol |-> TOKEN_STAR],
       [name |-> "mk_mega_knight_token", base |-> COLOR_PALETTES.MEGA,   hi |-> COLOR_PALETTES.MEGA_HI,   lo |-> COLOR_PALETTES.MEGA_LO,   symbol |-> TOKEN_CROWN] >>

bp_paper == <<212, 228, 247, 255>>

bp_paper_hi == <<232, 242, 255, 255>>

bp_paper_lo == <<170, 190, 220, 255>>

bp_ink == <<40, 70, 120, 255>>

bp_seal == <<180, 40, 40, 255>>

bp_configs ==
    << [name |-> "mk_blueprint_small_tower", drawing |-> BP_TOWER],
       [name |-> "mk_blueprint_gatehouse",   drawing |-> BP_GATE],
       [name |-> "mk_blueprint_great_hall",  drawing |-> BP_HALL] >>

\* for sx, sy in coords: if 0 <= sy < 16 and 0 <= sx < 16 and
\*                           shape[sy][sx] == '#': px(img, sx, sy, colour)
guarded_px(coords, shape, colour) ==
    LET Ok(c) == 0 <= c[2] /\ c[2] < 16 /\ 0 <= c[1] /\ c[1] < 16
                 /\ shape[c[2] + 1][c[1] + 1] = "#"
        kept == SelectSeq(coords, Ok)
    IN  Flatten([k \in 1..Len(kept) |-> px(kept[k][1], kept[k][2], colour)])

\* the cells of a shape in the order the nested enumerate() loops visit them
shape_cells(shape) ==
    [k \in 1 .. (Len(shape) * Len(shape[1])) |->
        <<(k - 1) % Len(shape[1]), (k - 1) \div Len(shape[1])>>]

\* mega knight gold trim: every '#' cell with no '#' above it
gold_trim(shape) ==
    LET Top(c) == shape[c[2] + 1][c[1] + 1] = "#"
                  /\ ~(c[2] > 0 /\ shape[c[2]][c[1] + 1] = "#")
        kept == SelectSeq(shape_cells(shape), Top)
    IN  Flatten([k \in 1..Len(kept) |-> px(kept[k][1], kept[k][2], COLOR_PALETTES.MEGA_GOLD)])

\* generate_item_icons, body of the armor-piece loop: the calls on img
item_icon(tier, base, hi, lo, piece, shape) ==
    Do(<< paint_icon_from_shape(shape, base, hi, lo, None) >>)
    \o When(tier = "champion" /\ piece = "chestplate",
            << px(7, 6, COLOR_PALETTES.CHAMP_GEM), px(8, 6, COLOR_PALETTES.CHAMP_GEM) >>)
    \o When(tier = "champion" /\ piece = "helmet",
            << px(7, 2, COLOR_PALETTES.CHAMP_HI), px(8, 2, COLOR_PALETTES.CHAMP_HI) >>)
    \o When(tier = "mega_knight", << gold_trim(shape) >>)
    \o When(tier = "mega_knight" /\ piece = "chestplate",
            << px(7, 6, COLOR_PALETTES.MEGA_GLOW), px(8, 6, COLOR_PALETTES.MEGA_GLOW) >>)

\* fault injected for C1: the piece left out of the file name
item_name_no_piece(tier, piece) == "mk_" \o tier

item_name(tier, piece) == "mk_" \o tier \o "_" \o piece

\* generate_item_icons, body of the token loop: the calls on img
token_icon(base, hi, lo, symbol) ==
    LET sym_color0 == IF base = COLOR_PALETTES.MEGA THEN <<255, 255, 255, 255>>
                      ELSE <<255, 240, 200, 255>>
        sym_color == IF base = COLOR_PALETTES.MEGA THEN COLOR_PALETTES.MEGA_GOLD ELSE sym_color0
    IN  Do(<< paint_icon_from_shape(TOKEN_SHAPE, base, hi, lo, None) >>)
        \o guarded_px(symbol, TOKEN_SHAPE, sym_color)

\* generate_item_icons, body of the blueprint loop: the calls on img
blueprint_icon(drawing) ==
    Do(<< paint_icon_from_shape(BLUEPRINT_SHAPE, bp_paper, bp_paper_hi, bp_paper_lo, None) >>)
    \o guarded_px(drawing, BLUEPRINT_SHAPE, bp_ink)
    \o Do(<< px(10, 10, bp_seal), px(11, 10, bp_seal),
          px(10, 11, bp_seal), px(11, 11, bp_seal) >>)


\* fault injected for C6: one object handed out again (main and legs of a
\* tier would share a buffer)
FreshId_reuse(h) == 1

\* ------------------------------------------------------ process state
\* id of a newly created object: one no live object has
FreshId(h) == CHOOSE n \in 1 .. (Cardinality(DOMAIN h) + 1) : n \notin DOMAIN h

\* the heap after object id was created as im and the names were rebound:
\* only the objects in live are still referenced
Bind(h, id, im, live) ==
    [k \in live \ {0} |-> IF k = id THEN im ELSE h[k]]

\* painter(img): the call of the function a skins entry refers to
call_painter(painter) ==
    CASE painter = "paint_ally_knight" -> paint_ally_knight(COLOR_PALETTES)
      [] painter = "paint_enemy_knight" -> paint_enemy_knight(COLOR_PALETTES)
      [] painter = "paint_ally_archer" -> paint_ally_archer(COLOR_PALETTES)
      [] painter = "paint_enemy_archer" -> paint_enemy_archer(COLOR_PALETTES)
      [] painter = "paint_ally_wizard" -> paint_ally_wizard(COLOR_PALETTES)
      [] painter = "paint_enemy_wizard" -> paint_enemy_wizard(COLOR_PALETTES)
      [] painter = "paint_ally_dark_knight" -> paint_ally_dark_knight(COLOR_PALETTES)
      [] painter = "paint_enemy_dark_knight" -> paint_enemy_dark_knight(COLOR_PALETTES)
      [] painter = "paint_boss_siege_lord" -> paint_boss_siege_lord(COLOR_PALETTES)

\* The putpixel calls of one painting step of the generate_* loops: the
\* painter of skin k, the two halves of paint_armor_tier for tier k, and the
\* bodies of the three icon loops.
skin_calls(k) == call_painter(skins[k].painter)

armor_main_calls(k) ==
    LET a == TierArgs(tiers[k].params)
    IN  paint_armor_tier_main(a.base, a.hi, a.lo, a.spec, a.accent,
            a.accent2, a.chainmail, a.stitch, a.trim_all, a.glow)

armor_legs_calls(k) ==
    LET a == TierArgs(tiers[k].params)
    IN  paint_armor_tier_legs(a.base, a.hi, a.lo, a.spec, a.accent,
            a.accent2, a.chainmail, a.stitch, a.trim_all, a.glow)

item_calls(k, n) ==
    LET t == tier_colors[k]
        p == pieces[n]
    IN  item_icon(t.tier, t.base, t.hi, t.lo, p.piece, p.shape)

token_calls(k) ==
    LET c == token_configs[k]
    IN  token_icon(c.base, c.hi, c.lo, c.symbol)

blueprint_calls(k) == blueprint_icon(bp_configs[k].drawing)

\* the calls of a painting step recorded on an object
Calls(step) ==
    CASE step[1] = "skin" -> skin_calls(step[2])
      [] step[1] = "armor_main" -> armor_main_calls(step[2])
      [] step[1] = "armor_legs" -> armor_legs_calls(step[2])
      [] step[1] = "item" -> item_calls(step[2], step[3])
      [] step[1] = "token" -> token_calls(step[2])
      [] step[1] = "blueprint" -> blueprint_calls(step[2])

\* every putpixel of ws falls inside object o
Fits(o, ws) ==
    \A tr \in {ws} :
        \A k \in DOMAIN tr : tr[k].S \subseteq (0 .. o.size[1]-1) \X (0 .. o.size[2]-1)

\* Object o after a painting step that makes the calls ws: a putpixel
\* outside the image raises IndexError, which ends the script.
Draw(o, step, ws) ==
    IF o.err \/ ~Fits(o, ws)
    THEN [o EXCEPT !.err = TRUE]
    ELSE [o EXCEPT !.drawn = Append(@, step)]

\* the pixel array object o holds
Pixels(o) ==
    Paint(Canvas(o.size[1], o.size[2], o.color),
          Flatten([k \in DOMAIN o.drawn |-> Calls(o.drawn[k])]))

\* files a previous, unrelated run may have left under root r
StaleDisk(r) ==
    (join(ENTITY_DIR(r), "mk_ally_knight.png") :> Image_new(64, 64, COLOR_PALETTES.AK_DARK))
    @@ (join(ITEMS_DIR(r), "mk_blueprint_great_hall.png") :> Image_new(16, 16, COLOR_PALETTES.PAGE))

StaleDirs(r) == makedirs(makedirs({}, ENTITY_DIR(r)), ITEMS_DIR(r))

\* the path of a saved file relative to ROOT
Rel(r, path) == SubSeq(path, Len(r) + 1, Len(path))

Range(s) == {s[k] : k \in DOMAIN s}

TestColours == {COLOR_PALETTES.AK_STEEL, COLOR_PALETTES.AK_STEEL_HI, COLOR_PALETTES.AK_STEEL_LO}

PrimIdle == t_img = <<>> /\ t_call = <<>> /\ t_old = <<>>

\* ROOT of the first run (a later run may be started from any of Roots)
FirstRoot == <<"repo">>

Init ==
    /\ pc = "start"
    /\ i = 1
    /\ j = 1
    /\ root = FirstRoot
    /\ run = 1
    /\ heap = <<>>
    /\ img = 0
    /\ main_img = 0
    /\ legs_img = 0
    /\ \E stale \in BOOLEAN :
         /\ dirs = IF stale THEN StaleDirs(root) ELSE {}
         /\ disk = IF stale THEN StaleDisk(root) ELSE <<>>
    /\ saves = <<>>
    /\ out = <<>>
    /\ prev = <<>>
    /\ PrimIdle

\* --------------------------------------------------------------- main()
Start ==
    /\ pc = "start"
    /\ out' = out \o <<"Generating Mega Knights textures...", "">>
    /\ pc' = "mk_entity"
    /\ UNCHANGED <<i, j, root, run, heap, img, main_img, legs_img, dirs, disk,
                   saves, prev, primVars>>

MakedirsEntity ==
    /\ pc = "mk_entity"
    /\ dirs' = makedirs(dirs, ENTITY_DIR(root))
    /\ pc' = "mk_items"
    /\ UNCHANGED <<i, j, root, run, heap, img, main_img, legs_img, disk,
                   saves, out, prev, primVars>>

MakedirsItems ==
    /\ pc = "mk_items"
    /\ dirs' = makedirs(dirs, ITEMS_DIR(root))
    /\ pc' = "mk_armor"
    /\ UNCHANGED <<i, j, root, run, heap, img, main_img, legs_img, disk,
                   saves, out, prev, primVars>>

\* fault injected for C4: main() going on without creating the armor directory
MakedirsArmor_skipped ==
    /\ pc = "mk_armor"
    /\ pc' = "skins"
    /\ UNCHANGED <<i, j, root, run, heap, img, main_img, legs_img, dirs, disk,
                   saves, out, prev, primVars>>

MakedirsArmor ==
    /\ pc = "mk_armor"
    /\ dirs' = makedirs(dirs, ARMOR_DIR(root))
    /\ pc' = "skins"
    /\ UNCHANGED <<i, j, root, run, heap, img, main_img, legs_img, disk,
                   saves, out, prev, primVars>>

\* ------------------------------------------------ generate_entity_skins
EnterSkins ==
    /\ pc = "skins"
    /\ out' = Append(out, "Entity skins (64x64):")
    /\ i' = 1
    /\ pc' = "skin_new"
    /\ UNCHANGED <<j, root, run, heap, img, main_img, legs_img, dirs, disk,
                   saves, prev, primVars>>

NewSkin ==
    /\ pc = "skin_new"
    /\ LET id == FreshId(heap)
       IN  /\ img' = id
           /\ heap' = Bind(heap, id, new_skin, {id})
    /\ pc' = "skin_paint"
    /\ UNCHANGED <<i, j, root, run, main_img, legs_img, dirs, disk, saves, out,
                   prev, primVars>>

PaintSkin ==
    /\ pc = "skin_paint"
    /\ heap' = [heap EXCEPT ![img] = Draw(@, <<"skin", i>>, skin_calls(i))]
    /\ pc' = IF heap'[img].err THEN "crashed" ELSE "skin_save"
    /\ UNCHANGED <<i, j, root, run, img, main_img, legs_img, dirs, disk, saves,
                   out, prev, primVars>>

SaveSkin ==
    /\ pc = "skin_save"
    /\ LET name == skins[i].name
           path == join(ENTITY_DIR(root), name \o ".png")
       IN  IF dirname(path) \notin dirs
           THEN /\ pc' = "crashed"
                /\ UNCHANGED <<i, heap, img, disk, saves, out>>
           ELSE /\ disk' = save(disk, path, heap[img])
                /\ saves' = Append(saves, path)
                /\ out' = Append(out, "  [skin] " \o name \o ".png")
                /\ IF i < Len(skins)
                   THEN /\ i' = i + 1
                        /\ pc' = "skin_new"
                        /\ UNCHANGED <<heap, img>>
                   ELSE /\ i' = 1
                        /\ pc' = "armor"
                        /\ img' = 0
                        /\ heap' = <<>>
    /\ UNCHANGED <<j, root, run, main_img, legs_img, dirs, prev, primVars>>

\* ---------------------------------------------- generate_armor_textures
EnterArmor ==
    /\ pc = "armor"
    /\ out' = out \o <<"", "Armor model textures (64x32):">>
    /\ i' = 1
    /\ pc' = "armor_new_main"
    /\ UNCHANGED <<j, root, run, heap, img, main_img, legs_img, dirs, disk,
                   saves, prev, primVars>>

NewArmorMain ==
    /\ pc = "armor_new_main"
    /\ LET id == FreshId(heap)
       IN  /\ main_img' = id
           /\ heap' = Bind(heap, id, new_armor_tex, {id, legs_img})
    /\ pc' = "armor_new_legs"
    /\ UNCHANGED <<i, j, root, run, img, legs_img, dirs, disk, saves, out, prev,
                   primVars>>

NewArmorLegs ==
    /\ pc = "armor_new_legs"
    /\ LET id == FreshId(heap)
       IN  /\ legs_img' = id
           /\ heap' = Bind(heap, id, new_armor_tex, {id, main_img})
    /\ pc' = "armor_paint_main"
    /\ UNCHANGED <<i, j, root, run, img, main_img, dirs, disk, saves, out, prev,
                   primVars>>

PaintArmorMain ==
    /\ pc = "armor_paint_main"
    /\ heap' = [heap EXCEPT ![main_img] = Draw(@, <<"armor_main", i>>, armor_main_calls(i))]
    /\ pc' = IF heap'[main_img].err THEN "crashed" ELSE "armor_paint_legs"
    /\ UNCHANGED <<i, j, root, run, img, main_img, legs_img, dirs, disk, saves,
                   out, prev, primVars>>

PaintArmorLegs ==
    /\ pc = "armor_paint_legs"
    /\ heap' = [heap EXCEPT ![legs_img] = Draw(@, <<"armor_legs", i>>, armor_legs_calls(i))]
    /\ pc' = IF heap'[legs_img].err THEN "crashed" ELSE "armor_save_main"
    /\ UNCHANGED <<i, j, root, run, img, main_img, legs_img, dirs, disk, saves,
                   out, prev, primVars>>

SaveArmorMain ==
    /\ pc = "armor_save_main"
    /\ LET path == join(ARMOR_DIR(root), tiers[i].name \o "_main.png")
       IN  IF dirname(path) \notin dirs
           THEN /\ pc' = "crashed"
                /\ UNCHANGED <<disk, saves>>
           ELSE /\ disk' = save(disk, path, heap[main_img])
                /\ saves' = Append(saves, path)
                /\ pc' = "armor_save_legs"
    /\ UNCHANGED <<i, j, root, run, heap, img, main_img, legs_img, dirs, out,
                   prev, primVars>>

SaveArmorLegs ==
    /\ pc = "armor_save_legs"
    /\ LET name == tiers[i].name
           path == join(ARMOR_DIR(root), name \o "_legs.png")
       IN  IF dirname(path) \notin dirs
           THEN /\ pc' = "crashed"
                /\ UNCHANGED <<i, heap, main_img, legs_img, disk, saves, out>>
           ELSE /\ disk' = save(disk, path, heap[legs_img])
                /\ saves' = Append(saves, path)
                /\ out' = Append(out, "  [armor] " \o name \o "_main.png + "
                                       \o name \o "_legs.png")
                /\ IF i < Len(tiers)
                   THEN /\ i' = i + 1
                        /\ pc' = "armor_new_main"
                        /\ UNCHANGED <<heap, main_img, legs_img>>
                   ELSE /\ i' = 1
                        /\ pc' = "items"
                        /\ main_img' = 0
                        /\ legs_img' = 0
                        /\ heap' = <<>>
    /\ UNCHANGED <<j, root, run, img, dirs, prev, primVars>>

\* --------------------------------------------------- generate_item_icons
EnterItems ==
    /\ pc = "items"
    /\ out' = out \o <<"", "Item icons (16x16):">>
    /\ i' = 1
    /\ j' = 1
    /\ pc' = "item_new"
    /\ UNCHANGED <<root, run, heap, img, main_img, legs_img, dirs, disk, saves,
                   prev, primVars>>

\* img = new_icon(), in any of the three icon loops
NewIcon ==
    /\ pc \in {"item_new", "token_new", "bp_new"}
    /\ LET id == FreshId(heap)
       IN  /\ img' = id
           /\ heap' = Bind(heap, id, new_icon, {id})
    /\ pc' = CASE pc = "item_new"  -> "item_paint"
               [] pc = "token_new" -> "token_paint"
               [] pc = "bp_new"    -> "bp_paint"
    /\ UNCHANGED <<i, j, root, run, main_img, legs_img, dirs, disk, saves, out,
                   prev, primVars>>

PaintItemIcon ==
    /\ pc = "item_paint"
    /\ heap' = [heap EXCEPT ![img] = Draw(@, <<"item", i, j>>, item_calls(i, j))]
    /\ pc' = IF heap'[img].err THEN "crashed" ELSE "item_save"
    /\ UNCHANGED <<i, j, root, run, img, main_img, legs_img, dirs, disk, saves,
                   out, prev, primVars>>

SaveItemIcon ==
    /\ pc = "item_save"
    /\ LET name == item_name(tier_colors[i].tier, pieces[j].piece)
           path == join(ITEMS_DIR(root), name \o ".png")
       IN  IF dirname(path) \notin dirs
           THEN /\ pc' = "crashed"
                /\ UNCHANGED <<i, j, disk, saves, out>>
           ELSE /\ disk' = save(disk, path, heap[img])
                /\ saves' = Append(saves, path)
                /\ out' = Append(out, "  [item] " \o name \o ".png")
                /\ IF j < Len(pieces)
                   THEN /\ j' = j + 1
                        /\ pc' = "item_new"
                        /\ UNCHANGED i
                   ELSE IF i < Len(tier_colors)
                   THEN /\ i' = i + 1
                        /\ j' = 1
                        /\ pc' = "item_new"
                   ELSE /\ i' = 1
                        /\ j' = 1
                        /\ pc' = "token_new"
    /\ UNCHANGED <<root, run, heap, img, main_img, legs_img, dirs, prev, primVars>>

PaintTokenIcon ==
    /\ pc = "token_paint"
    /\ heap' = [heap EXCEPT ![img] = Draw(@, <<"token", i>>, token_calls(i))]
    /\ pc' = IF heap'[img].err THEN "crashed" ELSE "token_save"
    /\ UNCHANGED <<i, j, root, run, img, main_img, legs_img, dirs, disk, saves,
                   out, prev, primVars>>

SaveTokenIcon ==
    /\ pc = "token_save"
    /\ LET name == token_configs[i].name
           path == join(ITEMS_DIR(root), name \o ".png")
       IN  IF dirname(path) \notin dirs
           THEN /\ pc' = "crashed"
                /\ UNCHANGED <<i, disk, saves, out>>
           ELSE /\ disk' = save(disk, path, heap[img])
                /\ saves' = Append(saves, path)
                /\ out' = Append(out, "  [token] " \o name \o ".png")
                /\ IF i < Len(token_configs)
                   THEN /\ i' = i + 1
                        /\ pc' = "token_new"
                   ELSE /\ i' = 1
                        /\ pc' = "bp_new"
    /\ UNCHANGED <<j, root, run, heap, img, main_img, legs_img, dirs, prev,
                   primVars>>

PaintBlueprintIcon ==
    /\ pc = "bp_paint"
    /\ heap' = [heap EXCEPT ![img] = Draw(@, <<"blueprint", i>>, blueprint_calls(i))]
    /\ pc' = IF heap'[img].err THEN "crashed" ELSE "bp_save"
    /\ UNCHANGED <<i, j, root, run, img, main_img, legs_img, dirs, disk, saves,
                   out, prev, primVars>>

SaveBlueprintIcon ==
    /\ pc = "bp_save"
    /\ LET name == bp_configs[i].name
           path == join(ITEMS_DIR(root), name \o ".png")
       IN  IF dirname(path) \notin dirs
           THEN /\ pc' = "crashed"
                /\ UNCHANGED <<i, heap, img, disk, saves, out>>
           ELSE /\ disk' = save(disk, path, heap[img])
                /\ saves' = Append(saves, path)
                /\ out' = Append(out, "  [blueprint] " \o name \o ".png")
                /\ IF i < Len(bp_configs)
                   THEN /\ i' = i + 1
                        /\ pc' = "bp_new"
                        /\ UNCHANGED <<heap, img>>
                   ELSE /\ i' = 1
                        /\ pc' = "finish"
                        /\ img' = 0
                        /\ heap' = <<>>
    /\ UNCHANGED <<j, root, run, main_img, legs_img, dirs, prev, primVars>>

Done ==
    /\ pc = "finish"
    /\ out' = out \o <<"", "Done! All 46 textures generated.">>
    /\ pc' = "done"
    /\ UNCHANGED <<i, j, root, run, heap, img, main_img, legs_img, dirs, disk,
                   saves, prev, primVars>>

\* The script is started again, from any ROOT, in a new process: only the
\* disk survives.  prev remembers what the finished run produced.
Rerun ==
    /\ pc = "done"
    /\ run < MaxRuns
    /\ run' = run + 1
    /\ root' \in Roots
    /\ prev' = [n \in {Rel(root, p) : p \in Range(saves)} |-> disk[root \o n]]
    /\ pc' = "start"
    /\ i' = 1
    /\ j' = 1
    /\ heap' = <<>>
    /\ img' = 0
    /\ main_img' = 0
    /\ legs_img' = 0
    /\ saves' = <<>>
    /\ out' = <<>>
    /\ UNCHANGED <<dirs, disk, primVars>>

Next ==
    \/ Start \/ MakedirsEntity \/ MakedirsItems \/ MakedirsArmor
    \/ EnterSkins \/ NewSkin \/ PaintSkin \/ SaveSkin
    \/ EnterArmor \/ NewArmorMain \/ NewArmorLegs
    \/ PaintArmorMain \/ PaintArmorLegs \/ SaveArmorMain \/ SaveArmorLegs
    \/ EnterItems \/ NewIcon
    \/ PaintItemIcon \/ SaveItemIcon
    \/ PaintTokenIcon \/ SaveTokenIcon
    \/ PaintBlueprintIcon \/ SaveBlueprintIcon
    \/ Done \/ Rerun

Spec == Init /\ [][Next]_vars

\* The script runs to completion once started: no step waits on anything.
FairSpec == Spec /\ WF_pc(Next)


\* ------------------------------------------- the primitives on their own
\* One call of a drawing primitive on a small buffer, with every origin,
\* extent and colour choice of the bounds.
MainIdle ==
    /\ pc = "prim" /\ i = 1 /\ j = 1 /\ root = <<>> /\ run = 1 /\ heap = <<>>
    /\ img = 0 /\ main_img = 0 /\ legs_img = 0 /\ dirs = {} /\ disk = <<>>
    /\ saves = <<>> /\ out = <<>> /\ prev = <<>>

PrimInit ==
    /\ MainIdle
    /\ t_img \in {Canvas(TestSize, TestSize, c) : c \in {T, COLOR_PALETTES.AK_DARK}}
    /\ t_call = <<>>
    /\ t_old = t_img

Call(call, ws) ==
    /\ t_call = <<>>
    /\ t_call' = call
    /\ t_old' = t_img
    /\ t_img' = Paint(t_img, ws)
    /\ UNCHANGED mainVars

CallFill ==
    \E x, y \in 0..MaxCoord, w, h \in 0..MaxExtent, c \in TestColours :
        Call(<<"fill", x, y, w, h, c>>, fill(x, y, w, h, c))

CallShade ==
    \E x, y \in 0..MaxCoord, w, h \in 0..MaxExtent, base, hi, lo \in TestColours :
        Call(<<"shade", x, y, w, h, base, hi, lo>>, shade(x, y, w, h, base, hi, lo))

CallHl ==
    \E x, y \in 0..MaxCoord, n \in 0..MaxExtent, c \in TestColours :
        Call(<<"hl", x, y, n, c>>, hl(x, y, n, c))

CallVl ==
    \E x, y \in 0..MaxCoord, n \in 0..MaxExtent, c \in TestColours :
        Call(<<"vl", x, y, n, c>>, vl(x, y, n, c))

CallPx ==
    \E x, y \in 0..MaxCoord, c \in TestColours :
        Call(<<"px", x, y, c>>, px(x, y, c))

PrimNext == CallFill \/ CallShade \/ CallHl \/ CallVl \/ CallPx

PrimSpec == PrimInit /\ [][PrimNext]_vars


\* ------------------------------------- _faces and paint_part on their own
\* One call of _faces, or of paint_part on the faces of a box, with every
\* box origin and size of the bounds and three different colours, on a
\* buffer the largest box fits in.
PartInit ==
    /\ MainIdle
    /\ t_img = Canvas(MaxOrigin + 4 * MaxBox, MaxOrigin + 2 * MaxBox, T)
    /\ t_call = <<>>
    /\ t_old = t_img

CallFaces ==
    \E U, V \in 0..MaxOrigin, W, H, D \in 1..MaxBox :
        Call(<<"_faces", <<U, V>>, <<W, H, D>>, _faces(<<U, V>>, <<W, H, D>>)>>, <<>>)

CallPaintPart ==
    \E U, V \in 0..MaxOrigin, W, H, D \in 1..MaxBox,
       base, hi, lo \in TestColours,
       top_c, bot_c \in {None, COLOR_PALETTES.AK_GOLD} :
        LET faces == _faces(<<U, V>>, <<W, H, D>>)
        IN  /\ Cardinality({base, hi, lo}) = 3
            /\ Call(<<"paint_part", faces, base, hi, lo, top_c, bot_c>>,
                    paint_part(faces, base, hi, lo, top_c, bot_c))

PartNext == CallFaces \/ CallPaintPart

PartSpec == PartInit /\ [][PartNext]_vars

\* ==================================================================
\*  PROPERTIES
\* ==================================================================
Blank(im, w, h) ==
    /\ im.w = w /\ im.h = h /\ ~im.err
    /\ DOMAIN im.pix = (0 .. w-1) \X (0 .. h-1)
    /\ \A p \in DOMAIN im.pix : im.pix[p] = <<0, 0, 0, 0>>

basename(path) == path[Len(path)]

TokenFiles == {token_configs[k].name \o ".png" : k \in DOMAIN token_configs}

BlueprintFiles == {bp_configs[k].name \o ".png" : k \in DOMAIN bp_configs}

SavedIn(d) == {k \in DOMAIN saves : dirname(saves[k]) = d}

\* rank of a saved path in the order main() produces the outputs
Stage(path) ==
    IF dirname(path) = ENTITY_DIR(root) THEN 1
    ELSE IF dirname(path) = ARMOR_DIR(root) THEN 2
    ELSE IF basename(path) \in TokenFiles THEN 4
    ELSE IF basename(path) \in BlueprintFiles THEN 5
    ELSE 3

\* C1: a run saves 46 images to 46 pairwise distinct paths (9 entity skins,
\* 10 armor model textures, 27 item icons of which 4 are tokens and 3 are
\* blueprints), and no path is ever saved to twice in a run.
C1_FortySixDistinctSaves ==
    /\ \A a, b \in DOMAIN saves : a # b => saves[a] # saves[b]
    /\ \A a \in DOMAIN saves : saves[a] \in DOMAIN disk
    /\ pc = "done" =>
         /\ Len(saves) = 46
         /\ Cardinality(Range(saves)) = 46
         /\ Cardinality(SavedIn(ENTITY_DIR(root))) = 9
         /\ Cardinality(SavedIn(ARMOR_DIR(root))) = 10
         /\ Cardinality(SavedIn(ITEMS_DIR(root))) = 27
         /\ Cardinality({k \in DOMAIN saves : Stage(saves[k]) = 3}) = 20
         /\ Cardinality({k \in DOMAIN saves : Stage(saves[k]) = 4}) = 4
         /\ Cardinality({k \in DOMAIN saves : Stage(saves[k]) = 5}) = 3

C1_Witness == pc = "done" /\ Len(saves) = 46 /\ run = 1

\* C2: no putpixel of a run falls outside the buffer it writes to: the run
\* never aborts on an out-of-range write, and the buffers have the sizes the
\* claim names (64x64 skins, 64x32 armor textures, 16x16 icons).
C2_WritesInRange ==
    /\ pc # "crashed"
    /\ \A id \in DOMAIN heap :
          /\ ~heap[id].err
          /\ \A k \in DOMAIN heap[id].drawn : Fits(heap[id], Calls(heap[id].drawn[k]))
    /\ pc \in {"skin_paint", "skin_save"} => heap[img].size = <<64, 64>>
    /\ pc \in {"armor_paint_main", "armor_paint_legs", "armor_save_main", "armor_save_legs"} =>
         heap[main_img].size = <<64, 32>> /\ heap[legs_img].size = <<64, 32>>
    /\ pc \in {"item_paint", "item_save", "token_paint", "token_save", "bp_paint", "bp_save"} =>
         heap[img].size = <<16, 16>>

C2_Witness ==
    /\ pc = "armor_save_main" /\ i = 5
    /\ heap[main_img].drawn = << <<"armor_main", 5>> >>
    /\ heap[legs_img].drawn = << <<"armor_legs", 5>> >>
    /\ \E k \in DOMAIN Calls(<<"armor_legs", 5>>) :
          \E p \in Calls(<<"armor_legs", 5>>)[k].S : p[2] = 31

\* C3: a second run of main(), started from any ROOT over whatever the
\* first run left on disk, saves for every output name the same image,
\* pixel for pixel, as the first run did.
Same(a, b) == a = b \/ Pixels(a) = Pixels(b)

C3_Deterministic ==
    run > 1 =>
        /\ \A k \in DOMAIN saves :
              /\ Rel(root, saves[k]) \in DOMAIN prev
              /\ Same(disk[saves[k]], prev[Rel(root, saves[k])])
        /\ pc = "done" => {Rel(root, p) : p \in Range(saves)} = DOMAIN prev

C3_Witness == run = 2 /\ pc = "done" /\ Len(saves) = 46 /\ Cardinality(DOMAIN prev) = 46

\* C4: the three output directories exist before the first save; entity
\* skins are saved before armor textures, armor textures before item icons,
\* and among the icons armor pieces before tokens before blueprints; the
\* final "Done!" line is printed only after the last of the 46 saves.
C4_Order ==
    /\ pc \in {"start", "mk_entity", "mk_items", "mk_armor"} => saves = <<>>
    /\ saves # <<>> =>
         {ENTITY_DIR(root), ITEMS_DIR(root), ARMOR_DIR(root)} \subseteq dirs
    /\ \A a, b \in DOMAIN saves : a < b => Stage(saves[a]) <= Stage(saves[b])
    /\ (\E k \in DOMAIN out : out[k] = "Done! All 46 textures generated.") =>
         Len(saves) = 46 /\ pc = "done"

C4_Witness ==
    /\ pc = "done"
    /\ out[Len(out)] = "Done! All 46 textures generated."
    /\ Stage(saves[1]) = 1 /\ Stage(saves[46]) = 5

\* C5: every started run of main() terminates: it reaches the final step
\* with all 46 images saved.
C5_Terminates == (pc = "start") ~> (pc = "done" /\ Len(saves) = 46)

C5_Witness == pc = "done" /\ run = MaxRuns /\ Len(out) > 46

\* C6: every output is painted on its own fresh buffer, all transparent and
\* of the fixed size of its kind, and painting a buffer changes neither
\* another live buffer (main and legs of one tier included) nor a saved file.
C6_Fresh ==
    /\ pc = "skin_paint" => Blank(Pixels(heap[img]), 64, 64)
    /\ pc = "armor_new_legs" => Blank(Pixels(heap[main_img]), 64, 32)
    /\ pc = "armor_paint_main" =>
         /\ main_img # legs_img
         /\ Blank(Pixels(heap[main_img]), 64, 32)
         /\ Blank(Pixels(heap[legs_img]), 64, 32)
    /\ pc = "armor_paint_legs" => Blank(Pixels(heap[legs_img]), 64, 32)
    /\ pc \in {"item_paint", "token_paint", "bp_paint"} => Blank(Pixels(heap[img]), 16, 16)

C6_Frame ==
    LET target == CASE pc \in {"skin_paint", "item_paint", "token_paint", "bp_paint"} -> img
                    [] pc = "armor_paint_main" -> main_img
                    [] pc = "armor_paint_legs" -> legs_img
                    [] OTHER -> 0
    IN  target # 0 =>
          /\ disk' = disk
          /\ DOMAIN heap' = DOMAIN heap
          /\ \A id \in DOMAIN heap : id # target => heap'[id] = heap[id]

C6_FreshAndFramed == []C6_Fresh /\ [][C6_Frame]_vars

C6_Witness ==
    /\ pc = "armor_paint_legs"
    /\ ~Blank(Pixels(heap[main_img]), 64, 32)
    /\ Blank(Pixels(heap[legs_img]), 64, 32)

\* the shape template of an item icon file
TemplateOf(file) ==
    IF file \in TokenFiles THEN TOKEN_SHAPE
    ELSE IF file \in BlueprintFiles THEN BLUEPRINT_SHAPE
    ELSE LET k == CHOOSE k \in DOMAIN pieces :
                    \E t \in DOMAIN tier_colors :
                        file = item_name(tier_colors[t].tier, pieces[k].piece) \o ".png"
         IN  pieces[k].shape

IconSaves == {k \in DOMAIN saves : dirname(saves[k]) = ITEMS_DIR(root)}

\* C7: every saved item icon follows its shape template: a pixel is opaque
\* exactly where the template has '#', and transparent where it has '.'.
C7_IconsFollowTemplate ==
    \A k \in IconSaves :
        LET im == Pixels(disk[saves[k]])
            shape == TemplateOf(basename(saves[k]))
        IN  \A p \in DOMAIN im.pix :
               /\ (im.pix[p][4] = 255) <=> (shape[p[2] + 1][p[1] + 1] = "#")
               /\ shape[p[2] + 1][p[1] + 1] = "." => im.pix[p] = <<0, 0, 0, 0>>

BlueprintPath(k) == join(ITEMS_DIR(root), bp_configs[k].name \o ".png")

\* C8: each saved blueprint icon has the coordinates of its own drawing
\* table in the ink colour, so the three blueprint icons differ pairwise.
C8_BlueprintsShowDrawing ==
    /\ \A k \in DOMAIN bp_configs :
          BlueprintPath(k) \in Range(saves) =>
             \A n \in DOMAIN bp_configs[k].drawing :
                Pixels(disk[BlueprintPath(k)]).pix[bp_configs[k].drawing[n]] = <<40, 70, 120, 255>>
    /\ \A a, b \in DOMAIN bp_configs :
          (a # b /\ BlueprintPath(a) \in Range(saves) /\ BlueprintPath(b) \in Range(saves))
             => Pixels(disk[BlueprintPath(a)]) # Pixels(disk[BlueprintPath(b)])

TokenPath(k) == join(ITEMS_DIR(root), token_configs[k].name \o ".png")

\* C9: in each saved token icon every coordinate of the token's symbol table
\* has the symbol colour: MEGA_GOLD for the mega knight token and
\* (255,240,200,255) for the other three.
C9_TokensShowSymbol ==
    \A k \in DOMAIN token_configs :
        TokenPath(k) \in Range(saves) =>
           \A n \in DOMAIN token_configs[k].symbol :
              Pixels(disk[TokenPath(k)]).pix[token_configs[k].symbol[n]] =
                 (IF token_configs[k].name = "mk_mega_knight_token"
                  THEN COLOR_PALETTES.MEGA_GOLD ELSE <<255, 240, 200, 255>>)

\* C10: after shade(x, y, w, h, base, hi, lo) with w >= 2 and h >= 2 inside
\* the buffer, the top row is hi, the bottom row is lo (corners included),
\* the left column between them is hi, the right column between them is lo
\* and every other pixel of the rectangle is base.
C10_ShadeTopLeftLit ==
    (t_call # <<>> /\ t_call[1] = "shade" /\ ~t_img.err) =>
        LET x == t_call[2]
            y == t_call[3]
            w == t_call[4]
            h == t_call[5]
            base == t_call[6]
            hi == t_call[7]
            lo == t_call[8]
        IN  (w >= 2 /\ h >= 2) =>
              \A p \in (x .. x+w-1) \X (y .. y+h-1) :
                 t_img.pix[p] = IF p[2] = y THEN hi
                                ELSE IF p[2] = y+h-1 THEN lo
                                ELSE IF p[1] = x THEN hi
                                ELSE IF p[1] = x+w-1 THEN lo
                                ELSE base

C10_Witness ==
    /\ t_call # <<>> /\ t_call[1] = "shade" /\ ~t_img.err
    /\ t_call[4] >= 3 /\ t_call[5] >= 3
    /\ Cardinality({t_call[6], t_call[7], t_call[8]}) = 3
    /\ t_img.pix[<<t_call[2] + 1, t_call[3] + 1>>] = t_call[6]


\* the pixels a primitive call is said to own
Extent(call) ==
    CASE call[1] \in {"fill", "shade"} ->
            (call[2] .. call[2]+call[4]-1) \X (call[3] .. call[3]+call[5]-1)
      [] call[1] = "hl" -> (call[2] .. call[2]+call[4]-1) \X {call[3]}
      [] call[1] = "vl" -> {call[2]} \X (call[3] .. call[3]+call[4]-1)
      [] call[1] = "px" -> {<<call[2], call[3]>>}
      [] OTHER -> {}

OutsideUnchanged ==
    \A p \in DOMAIN t_img.pix :
        p \notin Extent(t_call) => t_img.pix[p] = t_old.pix[p]

PrimitiveCalled ==
    /\ t_call # <<>> /\ ~t_img.err
    /\ t_call[1] \in {"fill", "shade", "hl", "vl", "px"}

\* C11 as stated: every primitive call, shade with any w and h included,
\* leaves every pixel outside its extent unchanged.
C11_FrameAsStated == PrimitiveCalled => OutsideUnchanged

\* C11: fill, hl, vl and px with any arguments, and shade with w >= 1 and
\* h >= 1, leave every pixel outside their extent unchanged; fill with w or
\* h equal to 0 and hl, vl with n equal to 0 change nothing.  (shade with
\* h = 0 and w >= 1 writes rows y and y-1; with w = 0 and h >= 3 it writes
\* columns x and x-1.)
C11_PrimitiveFrame ==
    PrimitiveCalled =>
        /\ (t_call[1] = "shade" => (t_call[4] >= 1 /\ t_call[5] >= 1))
              => OutsideUnchanged
        /\ (t_call[1] = "fill" /\ (t_call[4] = 0 \/ t_call[5] = 0)) => t_img = t_old
        /\ (t_call[1] \in {"hl", "vl"} /\ t_call[4] = 0) => t_img = t_old

C11_Witness ==
    /\ PrimitiveCalled /\ t_call[1] = "shade"
    /\ t_call[4] >= 1 /\ t_call[5] >= 1
    /\ \A p \in Extent(t_call) : t_img.pix[p] # t_old.pix[p]
    /\ \E p \in DOMAIN t_img.pix : p \notin Extent(t_call)

\* the (fill, top/left edge, bottom/right edge) colours paint_part is said
\* to give a face
FaceColours(name, base, hi, lo, top_c, bot_c) ==
    CASE name = "top" -> <<IF top_c = None THEN hi ELSE top_c, hi, base>>
      [] name = "bottom" -> <<IF bot_c = None THEN lo ELSE bot_c, lo, lo>>
      [] name = "back" -> <<lo, base, lo>>
      [] OTHER -> <<base, hi, lo>>

\* the colour of pixel p of a top-left lit rectangle r = <<x, y, w, h>>
Lit(p, r, c) ==
    IF p[2] = r[2] THEN c[2]
    ELSE IF p[2] = r[2] + r[4] - 1 THEN c[3]
    ELSE IF p[1] = r[1] THEN c[2]
    ELSE IF p[1] = r[1] + r[3] - 1 THEN c[3]
    ELSE c[1]

\* C12: after paint_part every face (of at least 2 x 2 pixels) is lit from
\* the top-left in the colours of its orientation: front, left, right in
\* (base, hi, lo); top in top_c with hi and base edges; bottom in bot_c with
\* lo edges; back in lo with base and lo edges; top_c defaults to hi and
\* bot_c to lo.
C12_PaintPartShading ==
    (t_call # <<>> /\ t_call[1] = "paint_part" /\ ~t_img.err) =>
        \A n \in DOMAIN FaceNames :
            LET r == t_call[2][FaceNames[n]]
                c == FaceColours(FaceNames[n], t_call[3], t_call[4], t_call[5],
                                 t_call[6], t_call[7])
            IN  (r[3] >= 2 /\ r[4] >= 2) =>
                   \A p \in (r[1] .. r[1]+r[3]-1) \X (r[2] .. r[2]+r[4]-1) :
                       t_img.pix[p] = Lit(p, r, c)

C12_Witness ==
    /\ t_call # <<>> /\ t_call[1] = "paint_part" /\ ~t_img.err
    /\ \A n \in DOMAIN FaceNames :
          t_call[2][FaceNames[n]][3] >= 3 /\ t_call[2][FaceNames[n]][4] >= 3
    /\ Cardinality({t_call[3], t_call[4], t_call[5]}) = 3
    /\ t_call[6] = COLOR_PALETTES.AK_GOLD /\ t_call[7] = None
    /\ t_img.pix[<<t_call[2].top[1] + 1, t_call[2].top[2] + 1>>] = COLOR_PALETTES.AK_GOLD
    /\ t_img.pix[<<t_call[2].bottom[1] + 1, t_call[2].bottom[2] + 1>>] = t_call[5]
    /\ t_img.pix[<<t_call[2].back[1], t_call[2].back[2]>>] = t_call[3]

RectOf(r) == (r[1] .. r[1]+r[3]-1) \X (r[2] .. r[2]+r[4]-1)

\* C13: for a box with positive dimensions the six rectangles of _faces are
\* pairwise disjoint and lie inside [U, U+2W+2D) x [V, V+D+H); top and
\* bottom lie side by side in the upper strip of height D, from x = U+D;
\* right, front, left, back follow each other without gaps in the lower
\* strip of height H, from x = U.
C13_FacesLayout ==
    (t_call # <<>> /\ t_call[1] = "_faces") =>
        LET U == t_call[2][1]
            V == t_call[2][2]
            W == t_call[3][1]
            H == t_call[3][2]
            D == t_call[3][3]
            f == t_call[4]
        IN  /\ DOMAIN f = {"top", "bottom", "right", "front", "left", "back"}
            /\ \A a, b \in DOMAIN f : a # b => RectOf(f[a]) \cap RectOf(f[b]) = {}
            /\ \A a \in DOMAIN f :
                  RectOf(f[a]) \subseteq (U .. U+2*W+2*D-1) \X (V .. V+D+H-1)
            /\ f.top = <<U+D, V, W, D>>
            /\ f.bottom = <<f.top[1] + f.top[3], V, W, D>>
            /\ f.right = <<U, V+D, D, H>>
            /\ f.front = <<f.right[1] + f.right[3], V+D, W, H>>
            /\ f.left = <<f.front[1] + f.front[3], V+D, D, H>>
            /\ f.back = <<f.left[1] + f.left[3], V+D, W, H>>
            /\ f.back[1] + f.back[3] = U + 2*W + 2*D

C13_Witness ==
    /\ t_call # <<>> /\ t_call[1] = "_faces"
    /\ t_call[2] = <<1, 1>>
    /\ Cardinality({t_call[3][1], t_call[3][2], t_call[3][3]}) = 3
    /\ t_call[4].back[1] = 1 + t_call[3][1] + 2 * t_call[3][3]
====
